---- MODULE Spec2Model ----
(***************************************************************************)
(* Market-Data-Service: the price service (MarketDataService), the store   *)
(* (DataAccessLayer over the SQLAlchemy models), the Kafka producer and    *)
(* the moving-average consumer, as one state machine.                      *)
(*                                                                         *)
(* Time is an integer clock `now` (UTC).  One minute is `Minute` clock     *)
(* units; every reading of the clock by the provider client is followed by *)
(* at least one unit of elapsed time, so two fetches never carry the same  *)
(* timestamp.  Prices are whole numbers; a moving average is kept in       *)
(* tenths (Scale) so that sum/len of whole prices is exact.                *)
(***************************************************************************)
EXTENDS Integers, Sequences, FiniteSets, TLC

VARIABLES
    now,            \* the UTC wall clock (datetime.utcnow())
    tzOffset,       \* host offset of local time (datetime.now()) from UTC
    providers,      \* MarketDataService.providers: the registered keys
    producerUp,     \* kafka_producer.producer is not None
    feed,           \* the upstream: feed[k] is the price of the k-th quote it serves
    quotes,         \* number of quotes the upstream has served since the start
    rawData,        \* table raw_market_data, in insertion order
    pricePoints,    \* table processed_price_points, in insertion order
    movingAverages, \* table moving_averages, in insertion order
    priceEvents,    \* topic price-events (one partition per key; log order)
    averageEvents,  \* topic symbol_averages
    calls,          \* the get_latest_price coroutines, one slot per caller
    consumer,       \* the MovingAverageConsumer process
    maTrace,        \* history: for each moving_averages row, what produced it
    jobConfigs,     \* table polling_job_configs, by job_id (unique)
    polling_jobs,   \* MarketDataService.polling_jobs: the in-memory registry
    workers,        \* the _polling_worker tasks, by job_id
    reply           \* what the last start or stop request was answered with

vars == <<now, tzOffset, providers, producerUp, feed, quotes, rawData,
          pricePoints, movingAverages, priceEvents, averageEvents, calls,
          consumer, maTrace, jobConfigs, polling_jobs, workers, reply>>

polling == <<jobConfigs, polling_jobs, workers, reply>>

store == <<rawData, pricePoints, movingAverages>>
channel == <<priceEvents, averageEvents>>
environment == <<tzOffset, providers, producerUp, feed>>

-----------------------------------------------------------------------------
(* Bounds of the model *)

MaxQuotes == 2
MaxMinutes == 6
MaxRestarts == 1
Warm == 4

(* Program constants *)

CacheMinutes == 5
LastN == 5
MinPoints == 5
Period == 5
EventPeriod == 5
MinInterval == 30
MaxInterval == 3600

(* Units *)

Minute == MaxQuotes + 2
Hour == 60 * Minute
Scale == 10
TickMinutes == (CacheMinutes \div 2) + 1

\* n seconds in clock units (timedelta(seconds=n))
Seconds(n) == (n * Minute) \div 60

\* None, where a time is expected
Never == 0 - 1

-----------------------------------------------------------------------------
(* Inputs *)

\* uuid.uuid4().hex[:8]: the job ids a start may draw
JobIds == {"poll_1", "poll_2"}

\* the coroutines that call get_latest_price: requests, and one worker per job
Callers == {"c1", "c2"} \cup JobIds
RequestSymbols == {"AAPL", "aapl", "MSFT"}
PolledSymbols == {"AAPL"}
ProviderArgs == {"None", "alpha_vantage", "yahoo"}
TzOffsets == {0 - Hour, 0, Hour}

\* what earlier runs of the service left in the store and on the topic: the
\* number of AAPL prices fetched, persisted and published before the start
WarmStarts == {0, Warm - 1, Warm}

\* the upstream's quotes, earlier runs included: the prices of the unit test,
\* and a series with a quote that carries no price (read as 0)
TestPrices == <<100, 101, 99, 102, 98>>
TestFeed == [k \in 1..(Warm + MaxQuotes) |->
                IF k <= Len(TestPrices) THEN TestPrices[k] ELSE 100 + k]
ZeroFeed == [k \in 1..(Warm + MaxQuotes) |-> IF k = 5 THEN 0 ELSE k]
Feeds == {TestFeed, ZeroFeed}

\* What the request to GLOBAL_QUOTE meets: the transport works, or raises an
\* aiohttp.ClientError (raise_for_status too), or raises something else (a
\* timeout); the body has or has not "Error Message" and "Note"; its "Global
\* Quote" is missing, is empty, lacks "05. price" or has it.
Transports == {"ok", "client_error", "other_error"}
QuoteFields == {"absent", "empty", "no_price", "price"}
Responses == [transport : Transports, error_message : BOOLEAN, note : BOOLEAN,
              quote : QuoteFields]

\* raise ValueError(message): the kind of failure the message tells
Failure(kind, message) == [kind |-> kind, message |-> message]

\* variant: the "Note" of the body is not looked at
provider_get_latest_price_no_note(response, price) ==
    IF response.transport = "client_error"
    THEN Failure("transport", <<"Failed to fetch data from Alpha Vantage", "client">>)
    ELSE IF response.transport = "other_error"
    THEN Failure("transport", <<"Unexpected error", "other">>)
    ELSE IF response.error_message
    THEN Failure("error_message", <<"Unexpected error", "Alpha Vantage API Error">>)
    ELSE IF response.quote \in {"absent", "empty"}
    THEN Failure("no_data", <<"Unexpected error", "No data found for symbol">>)
    ELSE [kind |-> "quote",
          price |-> IF response.quote = "no_price" THEN 0 ELSE price]

\* AlphaVantageProvider.get_latest_price on a response whose "05. price",
\* when it is there, is price: the ValueError raised or the price returned.
\* The ValueErrors raised inside the try are caught by "except Exception"
\* and raised again behind "Unexpected error: ".
provider_get_latest_price(response, price) ==
    IF response.transport = "client_error"
    THEN Failure("transport", <<"Failed to fetch data from Alpha Vantage", "client">>)
    ELSE IF response.transport = "other_error"
    THEN Failure("transport", <<"Unexpected error", "other">>)
    ELSE IF response.error_message
    THEN Failure("error_message", <<"Unexpected error", "Alpha Vantage API Error">>)
    ELSE IF response.note
    THEN Failure("rate_limit",
                 <<"Unexpected error", "Alpha Vantage API rate limit exceeded">>)
    ELSE IF response.quote \in {"absent", "empty"}
    THEN Failure("no_data", <<"Unexpected error", "No data found for symbol">>)
    ELSE [kind |-> "quote",
          price |-> IF response.quote = "no_price" THEN 0 ELSE price]

\* the responses that are answered with a price, and the kinds of failure
\* of the others
QuoteResponses == {r \in Responses : provider_get_latest_price(r, 0).kind = "quote"}
ProviderFailures ==
    {provider_get_latest_price(r, 0).kind : r \in Responses \ QuoteResponses}

\* symbols as a client may write them, in small letters
LowerSymbols == {"aapl", "msft"}

\* the bodies of POST /prices/poll: symbols, interval, provider
SymbolLists == {<<"aapl", "MSFT">>}
Intervals == {29, 30, 3600, 3601}
AcceptedIntervals == {30, 3600}
JobProviders == {"None", "yahoo"}

\* the body of a job of one symbol
OneSymbolLists == {<<"AAPL">>}

\* the id drawn where a single job is looked at
OneJobId == {"poll_1"}

\* the job ids of DELETE /prices/poll/{job_id}: poll_0 is never drawn
StopIds == JobIds \cup {"poll_0"}

-----------------------------------------------------------------------------
(* Configuration and conversions *)

DEFAULT_PROVIDER == "alpha_vantage"

\* variant: the symbol kept as it was given
UpperAsGiven(s) == s

\* str.upper() on the request symbols
Upper(s) == CASE s = "aapl" -> "AAPL"
              [] s = "msft" -> "MSFT"
              [] OTHER -> s

\* MarketDataProvider.__init__: the class name, lowered, without "provider"
ProviderName(key) == IF key = "alpha_vantage" THEN "alphavantage" ELSE key

\* AlphaVantageProvider.get_rate_limit: calls per minute
get_rate_limit == 5

\* datetime.isoformat(): the text of a timestamp; fromisoformat() reads it back
isoformat(t) == <<"iso", t>>
fromisoformat(s) == s[2]

\* str(uuid)
StrId(id) == <<"uuid", id>>

\* datetime.now(): naive local time
LocalNow == now + tzOffset

-----------------------------------------------------------------------------
(* The store: DataAccessLayer *)

Indices(seq) == 1..Len(seq)

\* rows of processed_price_points of a symbol (and, when given, a provider)
PointsOf(symbol, provider) ==
    {i \in Indices(pricePoints) :
        /\ pricePoints[i].symbol = Upper(symbol)
        /\ (provider # "None" => pricePoints[i].provider = provider)}

\* order_by(desc(timestamp)).limit(n): every set of n rows (or all rows, when
\* fewer exist) that no row left out is newer than; the database breaks a
\* tie between equal timestamps as it likes
NewestRows(rows, n) ==
    {S \in SUBSET rows :
        /\ Cardinality(S) = (IF Cardinality(rows) < n THEN Cardinality(rows) ELSE n)
        /\ \A i \in S : \A j \in rows \ S :
                pricePoints[j].timestamp <= pricePoints[i].timestamp}

\* DataAccessLayer.get_latest_price: .first() of the descending order
dal_get_latest_price(symbol, provider) == NewestRows(PointsOf(symbol, provider), 1)

\* variant: the order ascending (the n oldest rows)
get_last_n_prices_oldest(symbol, n) ==
    LET rows == PointsOf(symbol, "None")
    IN  {S \in SUBSET rows :
            /\ Cardinality(S) = (IF Cardinality(rows) < n THEN Cardinality(rows) ELSE n)
            /\ \A i \in S : \A j \in rows \ S :
                    pricePoints[i].timestamp <= pricePoints[j].timestamp}

\* DataAccessLayer.get_last_n_prices
get_last_n_prices(symbol, n) == NewestRows(PointsOf(symbol, "None"), n)

\* DataAccessLayer.get_price_history behind MarketDataService.get_price_history:
\* the rows of the symbol not older than `hours` hours
get_price_history(symbol, hours) ==
    {i \in PointsOf(symbol, "None") : pricePoints[i].timestamp >= now - hours * Hour}

\* DataAccessLayer.get_latest_moving_average behind
\* MarketDataService.get_moving_average: .first() of the rows of the symbol
\* and the period in descending order of timestamp (every row it may be)
get_moving_average(symbol, period) ==
    LET rows == {i \in Indices(movingAverages) :
                    /\ movingAverages[i].symbol = Upper(symbol)
                    /\ movingAverages[i].period = period}
    IN  {i \in rows : \A k \in rows :
            movingAverages[k].timestamp <= movingAverages[i].timestamp}

RawRow(symbol, provider, price) ==
    [id |-> Len(rawData) + 1, symbol |-> Upper(symbol), provider |-> provider,
     raw_response |-> price, timestamp |-> now]

\* variant: the reference of a point is its own number, not the raw row's
PointRowUnlinked(symbol, price, timestamp, provider, raw_response_id) ==
    [id |-> Len(pricePoints) + 1, symbol |-> Upper(symbol), price |-> price,
     timestamp |-> timestamp, provider |-> provider,
     raw_response_id |-> Len(pricePoints) + 1]

\* DataAccessLayer.save_price_point: the row of processed_price_points
PointRow(symbol, price, timestamp, provider, raw_response_id) ==
    [id |-> Len(pricePoints) + 1, symbol |-> Upper(symbol), price |-> price,
     timestamp |-> timestamp, provider |-> provider,
     raw_response_id |-> raw_response_id]

AverageRow(symbol, moving_average, period) ==
    [symbol |-> Upper(symbol), moving_average |-> moving_average,
     period |-> period, timestamp |-> now]

-----------------------------------------------------------------------------
(* The price service: MarketDataService.get_latest_price *)

NoRet == [status |-> "none", source |-> "", symbol |-> "", price |-> 0,
          timestamp |-> 0, provider |-> ""]

IdleCall == [pc |-> "idle", symbol |-> "", provider |-> "None", use_cache |-> FALSE,
             answer |-> "none", price |-> 0, timestamp |-> 0, rawId |-> 0, pointId |-> 0,
             provCalls |-> 0, pubTries |-> 0, ret |-> NoRet]

ErrorRet(kind) == [NoRet EXCEPT !.status = "error", !.source = kind]

\* the part of a coroutine after its await runs to the return without yielding
\* the event loop: no other coroutine of the service runs meanwhile
SyncPcs == {"save_raw", "save_point", "publish"}

\* variant: the request to the provider made with a blocking client, the
\* event loop held until the answer
LoopFreeBlocking(c) == \A d \in Callers \ {c} : calls[d].pc \notin {"fetch"} \cup SyncPcs

\* no other coroutine is in its synchronous part
LoopFree(c) == \A d \in Callers \ {c} : calls[d].pc \notin SyncPcs

\* provider_name or settings.DEFAULT_PROVIDER
ResolveProvider(provider) == IF provider = "None" THEN DEFAULT_PROVIDER ELSE provider

\* MarketDataService.get_provider: TRUE when it returns, FALSE when it raises
get_provider(provider) == ResolveProvider(provider) \in providers

\* provider_instance.name
InstanceName(provider) == ProviderName(ResolveProvider(provider))

\* variant: the window taken as 5 clock units (timedelta(seconds=5))
IsFreshSeconds(timestamp) == timestamp > now - CacheMinutes

\* recent_price.timestamp > datetime.utcnow() - timedelta(minutes=5)
IsFresh(timestamp) == timestamp > now - CacheMinutes * Minute

\* variant: the flag is not looked at (if db:)
ConsultsCacheAlways(use_cache) == TRUE

\* if use_cache and db: the cache is consulted (db is always a session)
ConsultsCache(use_cache) == use_cache

\* the dictionary returned on a cache hit
CacheRet(row) == [status |-> "ok", source |-> "cache", symbol |-> row.symbol,
                  price |-> row.price, timestamp |-> row.timestamp,
                  provider |-> row.provider]

\* MarketDataProvider.format_response with result["source"] = "live"
LiveRet(call) == [status |-> "ok", source |-> "live", symbol |-> Upper(call.symbol),
                  price |-> call.price, timestamp |-> call.timestamp,
                  provider |-> InstanceName(call.provider)]

\* variant: the event stamped with the time of publication
PriceEventMessageNow(symbol, price, timestamp, provider, raw_response_id) ==
    [key |-> symbol, symbol |-> Upper(symbol), price |-> price,
     timestamp |-> isoformat(now), source |-> provider,
     raw_response_id |-> StrId(raw_response_id)]

\* the message of KafkaProducer.publish_price_event
PriceEventMessage(symbol, price, timestamp, provider, raw_response_id) ==
    [key |-> symbol, symbol |-> Upper(symbol), price |-> price,
     timestamp |-> isoformat(timestamp), source |-> provider,
     raw_response_id |-> StrId(raw_response_id)]

\* line 44: symbol = symbol.upper()
Normalize(symbol) == Upper(symbol)

\* lines 43-61: entry, provider lookup, cache check, request to the provider
\* get_latest_price up to its first await or return (lines 43-61): the call
\* records it may leave
EnteredCalls(symbol, provider, use_cache) ==
    LET call == [IdleCall EXCEPT !.symbol = Normalize(symbol), !.provider = provider,
                                 !.use_cache = use_cache]
        name == InstanceName(provider)
    IN  IF ~get_provider(provider)
        THEN {[call EXCEPT !.pc = "failed", !.ret = ErrorRet("provider_not_available")]}
        ELSE UNION { IF /\ ConsultsCache(use_cache)
                        /\ recent # {}
                        /\ \A i \in recent : IsFresh(pricePoints[i].timestamp)
                     THEN {[call EXCEPT !.pc = "done", !.ret = CacheRet(pricePoints[i])] :
                                i \in recent}
                     ELSE {[call EXCEPT !.pc = "fetch", !.provCalls = 1]} :
                     recent \in dal_get_latest_price(Upper(symbol), name) }

get_latest_price_begin(c, symbol, provider, use_cache) ==
    /\ calls[c].pc = "idle"
    /\ LoopFree(c)
    /\ \E call \in EnteredCalls(symbol, provider, use_cache) :
          calls' = [calls EXCEPT ![c] = call]
    /\ UNCHANGED polling
    /\ UNCHANGED <<now, environment, quotes, store, channel, consumer, maTrace>>

\* AlphaVantageProvider.get_latest_price answers with a quote: the price is
\* the next one of the feed (0 when the quote has no "05. price")
provider_quote(c) ==
    /\ calls[c].pc = "fetch"
    /\ LoopFree(c)
    /\ quotes < MaxQuotes
    /\ quotes' = quotes + 1
    /\ \E response \in QuoteResponses :
          \E out \in {provider_get_latest_price(response, feed[quotes + 1])} :
             /\ out.price = feed[quotes + 1]
             /\ calls' = [calls EXCEPT ![c].pc = "save_raw", ![c].answer = out.kind,
                                       ![c].price = out.price,
                                       ![c].timestamp = LocalNow]
    /\ now' = now + 1
    /\ UNCHANGED polling
    /\ UNCHANGED <<environment, store, channel, consumer, maTrace>>

\* variant: a failed request is answered with a default price and goes on
provider_failure_default(c) ==
    /\ calls[c].pc = "fetch"
    /\ LoopFree(c)
    /\ \E kind \in ProviderFailures :
          calls' = [calls EXCEPT ![c].pc = "save_raw", ![c].answer = kind,
                                    ![c].price = 0, ![c].timestamp = LocalNow]
    /\ UNCHANGED polling
    /\ UNCHANGED <<now, environment, quotes, store, channel, consumer, maTrace>>

\* AlphaVantageProvider.get_latest_price raises; line 92-93 re-raises
provider_failure(c) ==
    /\ calls[c].pc = "fetch"
    /\ LoopFree(c)
    /\ \E kind \in ProviderFailures :
          calls' = [calls EXCEPT ![c].pc = "failed", ![c].answer = kind,
                                    ![c].ret = ErrorRet(kind)]
    /\ UNCHANGED polling
    /\ UNCHANGED <<now, environment, quotes, store, channel, consumer, maTrace>>

\* lines 66-70: DataAccessLayer.save_raw_market_data (ok), or its commit raising
save_raw_market_data(c, ok) ==
    /\ calls[c].pc = "save_raw"
    /\ \/ /\ ok
          /\ rawData' = Append(rawData, RawRow(calls[c].symbol,
                                  InstanceName(calls[c].provider), calls[c].price))
          /\ calls' = [calls EXCEPT ![c].pc = "save_point",
                                    ![c].rawId = Len(rawData) + 1]
       \/ /\ ~ok
          /\ calls' = [calls EXCEPT ![c].pc = "failed", ![c].ret = ErrorRet("store")]
          /\ UNCHANGED rawData
    /\ UNCHANGED polling
    /\ UNCHANGED <<now, environment, quotes, pricePoints, movingAverages,
                   channel, consumer, maTrace>>

\* variant: a failed write of the price point is swallowed
save_price_point_swallowed(c, ok) ==
    /\ calls[c].pc = "save_point"
    /\ \/ /\ ok
          /\ pricePoints' = Append(pricePoints, PointRow(calls[c].symbol, calls[c].price,
                                  calls[c].timestamp, InstanceName(calls[c].provider),
                                  calls[c].rawId))
          /\ calls' = [calls EXCEPT ![c].pc = "publish",
                                    ![c].pointId = Len(pricePoints) + 1]
       \/ /\ ~ok
          /\ calls' = [calls EXCEPT ![c].pc = "publish"]
          /\ UNCHANGED pricePoints
    /\ UNCHANGED polling
    /\ UNCHANGED <<now, environment, quotes, rawData, movingAverages,
                   channel, consumer, maTrace>>

\* lines 72-78: DataAccessLayer.save_price_point (ok), or its commit raising
save_price_point(c, ok) ==
    /\ calls[c].pc = "save_point"
    /\ \/ /\ ok
          /\ pricePoints' = Append(pricePoints, PointRow(calls[c].symbol, calls[c].price,
                                  calls[c].timestamp, InstanceName(calls[c].provider),
                                  calls[c].rawId))
          /\ calls' = [calls EXCEPT ![c].pc = "publish",
                                    ![c].pointId = Len(pricePoints) + 1]
       \/ /\ ~ok
          /\ calls' = [calls EXCEPT ![c].pc = "failed", ![c].ret = ErrorRet("store")]
          /\ UNCHANGED pricePoints
    /\ UNCHANGED polling
    /\ UNCHANGED <<now, environment, quotes, rawData, movingAverages,
                   channel, consumer, maTrace>>

\* variant: a failed publication propagates as the failure of the call
publish_price_event_raising(c) ==
    /\ calls[c].pc = "publish"
    /\ \/ /\ producerUp
          /\ priceEvents' = Append(priceEvents, PriceEventMessage(calls[c].symbol,
                                  calls[c].price, calls[c].timestamp,
                                  InstanceName(calls[c].provider), calls[c].rawId))
          /\ calls' = [calls EXCEPT ![c].pc = "done",
                                    ![c].pubTries = calls[c].pubTries + 1,
                                    ![c].ret = LiveRet(calls[c])]
       \/ /\ UNCHANGED priceEvents
          /\ calls' = [calls EXCEPT ![c].pc = "failed",
                                    ![c].pubTries = calls[c].pubTries + 1,
                                    ![c].ret = ErrorRet("publish")]
    /\ UNCHANGED polling
    /\ UNCHANGED <<now, environment, quotes, store, averageEvents, consumer, maTrace>>

\* lines 80-90: KafkaProducer.publish_price_event, then the return of the live result
publish_price_event(c) ==
    /\ calls[c].pc = "publish"
    /\ \/ /\ producerUp
          /\ priceEvents' = Append(priceEvents, PriceEventMessage(calls[c].symbol,
                                  calls[c].price, calls[c].timestamp,
                                  InstanceName(calls[c].provider), calls[c].rawId))
       \/ /\ UNCHANGED priceEvents    \* no producer, or produce raises: returns False
    /\ calls' = [calls EXCEPT ![c].pc = "done", ![c].pubTries = calls[c].pubTries + 1,
                              ![c].ret = LiveRet(calls[c])]
    /\ UNCHANGED polling
    /\ UNCHANGED <<now, environment, quotes, store, averageEvents, consumer, maTrace>>

\* the caller takes the result (or the error); the slot is free again
get_latest_price_return(c) ==
    /\ calls[c].pc \in {"done", "failed"}
    /\ calls' = [calls EXCEPT ![c] = IdleCall]
    /\ UNCHANGED polling
    /\ UNCHANGED <<now, environment, quotes, store, channel, consumer, maTrace>>

\* time passes: the clock is looked at every TickMinutes minutes
Tick ==
    /\ now + TickMinutes * Minute <= MaxMinutes * Minute + MaxQuotes
    /\ now' = now + TickMinutes * Minute
    /\ UNCHANGED polling
    /\ UNCHANGED <<environment, quotes, store, channel, calls, consumer, maTrace>>

-----------------------------------------------------------------------------
(* The statistic consumer: MovingAverageConsumer *)

\* the consumer in its loop before a poll: self.running is True (line 124),
\* the Consumer is open, the Producer not flushed
IdleConsumer(position, committed, restarts) ==
    [pc |-> "idle", position |-> position, committed |-> committed, offset |-> 0,
     average |-> 0, logged |-> "", restarts |-> restarts,
     running |-> TRUE, closed |-> FALSE, flushed |-> FALSE]

RECURSIVE SumPrices(_)
SumPrices(rows) ==
    IF rows = {} THEN 0
    ELSE LET i == CHOOSE j \in rows : TRUE
         IN  pricePoints[i].price + SumPrices(rows \ {i})

\* variant: floor division (sum(prices) // len(prices))
MeanFloor(rows) == (SumPrices(rows) \div Cardinality(rows)) * Scale

\* sum(prices) / len(prices), in tenths
Mean(rows) == (SumPrices(rows) * Scale) \div Cardinality(rows)

\* variant: only an empty result is refused (if not recent_prices)
EnoughPointsAny(rows) == rows # {}

\* if len(recent_prices) < 5: return None
EnoughPoints(rows) == ~(Cardinality(rows) < MinPoints)

\* variant: only the symbol is required (if not symbol)
ValidMessageSymbolOnly(m) == m.symbol # ""

\* if not all([symbol, price, timestamp_str]): a field that is absent, empty or
\* zero is false
ValidMessage(m) == m.symbol # "" /\ m.price # 0 /\ m.timestamp # <<>>

\* variant: the derived event stamped with the time of the computation
AverageEventMessageNow(symbol, moving_average, timestamp) ==
    [key |-> symbol, symbol |-> symbol, moving_average |-> moving_average,
     period |-> EventPeriod, timestamp |-> isoformat(now),
     calculated_at |-> isoformat(now)]

\* the message of _publish_moving_average
AverageEventMessage(symbol, moving_average, timestamp) ==
    [key |-> symbol, symbol |-> symbol, moving_average |-> moving_average,
     period |-> EventPeriod, timestamp |-> isoformat(timestamp),
     calculated_at |-> isoformat(now)]

\* consumer.poll returns the next message of the log
consumer_poll ==
    /\ consumer.pc = "idle"
    /\ consumer.position <= Len(priceEvents)
    /\ consumer' = [consumer EXCEPT !.pc = "process", !.offset = consumer.position,
                                    !.position = consumer.position + 1]
    /\ UNCHANGED polling
    /\ UNCHANGED <<now, environment, quotes, store, channel, calls, maTrace>>

\* _process_price_event up to save_moving_average (lines 93-112), with
\* _calculate_moving_average (lines 48-66)
process_price_event ==
    /\ consumer.pc = "process"
    /\ LET m == priceEvents[consumer.offset]
       IN  \/ /\ ~ValidMessage(m)                       \* logged, return
              /\ consumer' = [consumer EXCEPT !.pc = "commit", !.logged = "invalid"]
              /\ UNCHANGED <<movingAverages, maTrace>>
           \/ /\ ValidMessage(m)
              /\ \E recent \in get_last_n_prices(m.symbol, LastN) :
                    IF ~EnoughPoints(recent)
                    THEN /\ consumer' = [consumer EXCEPT !.pc = "commit",
                                                         !.logged = "not_enough"]
                         /\ UNCHANGED <<movingAverages, maTrace>>
                    ELSE /\ movingAverages' = Append(movingAverages,
                                    AverageRow(m.symbol, Mean(recent), Period))
                         /\ maTrace' = Append(maTrace,
                                    [offset |-> consumer.offset, window |-> recent,
                                     stored |-> PointsOf(m.symbol, "None")])
                         /\ consumer' = [consumer EXCEPT !.pc = "publish",
                                                         !.average = Mean(recent)]
           \/ /\ ValidMessage(m)                        \* the store raises: logged
              /\ consumer' = [consumer EXCEPT !.pc = "commit", !.logged = "store"]
              /\ UNCHANGED <<movingAverages, maTrace>>
    /\ UNCHANGED polling
    /\ UNCHANGED <<now, environment, quotes, rawData, pricePoints, channel, calls>>

\* _publish_moving_average (lines 68-90), called at line 114
publish_moving_average ==
    /\ consumer.pc = "publish"
    /\ LET m == priceEvents[consumer.offset]
       IN  \/ averageEvents' = Append(averageEvents,
                    AverageEventMessage(m.symbol, consumer.average,
                                        fromisoformat(m.timestamp)))
           \/ UNCHANGED averageEvents                   \* produce raises: logged
    /\ consumer' = [consumer EXCEPT !.pc = "commit"]
    /\ UNCHANGED polling
    /\ UNCHANGED <<now, environment, quotes, store, priceEvents, calls, maTrace>>

\* self.consumer.commit(msg) (line 146).  A commit that does not reach the
\* broker is the death of the consumer before it: consumer_restart.
consumer_commit ==
    /\ consumer.pc = "commit"
    /\ consumer' = IdleConsumer(consumer.position, consumer.offset + 1, consumer.restarts)
    /\ UNCHANGED polling
    /\ UNCHANGED <<now, environment, quotes, store, channel, calls, maTrace>>

\* the consumer process dies and is started again: it resumes at the committed
\* offset (enable.auto.commit False, auto.offset.reset earliest)
consumer_restart ==
    /\ consumer.restarts < MaxRestarts
    /\ consumer.position > consumer.committed
    /\ consumer' = IdleConsumer(consumer.committed, consumer.committed, consumer.restarts + 1)
    /\ UNCHANGED polling
    /\ UNCHANGED <<now, environment, quotes, store, channel, calls, maTrace>>

\* the codes of the errors a polled message may carry (KafkaError)
BrokerErrors == {"_PARTITION_EOF", "_TRANSPORT", "UNKNOWN_TOPIC_OR_PART"}

\* variant: no error code is passed over
PartitionEofNever(code) == FALSE

\* msg.error().code() == KafkaError._PARTITION_EOF (line 134)
PartitionEof(code) == code = "_PARTITION_EOF"

\* stop_consuming (lines 160-166): the consumer after it
stop_consuming(c) ==
    [c EXCEPT !.pc = "stopped", !.running = FALSE, !.closed = TRUE, !.flushed = TRUE]

\* consumer.poll returns a message that carries an error (lines 133-138): the
\* end of a partition is passed over (continue); any other error is logged
\* with its code and the loop is left (break), through the finally clause
\* (lines 156-157) that calls stop_consuming
consumer_poll_error(code) ==
    /\ consumer.pc = "idle"
    /\ consumer' = IF PartitionEof(code)
                   THEN consumer
                   ELSE stop_consuming([consumer EXCEPT !.logged = code])
    /\ UNCHANGED polling
    /\ UNCHANGED <<now, environment, quotes, store, channel, calls, maTrace>>

-----------------------------------------------------------------------------
(* The polling jobs: start_polling_job, _polling_worker, stop_polling_job *)

NoWorker == [pc |-> "none", index |-> 0, wake |-> 0, ticks |-> 0]
NoReply == [op |-> "none", job_id |-> "", interval |-> 0, ok |-> FALSE, status |-> ""]
NoJob == [job_id |-> "", status |-> "none"]

\* the handlers of the requests run on the event loop as well
LoopIdle == \A d \in Callers : calls[d].pc \notin SyncPcs

\* variant: the lower bound exclusive (gt=30)
ValidIntervalAbove(interval) == interval > MinInterval /\ interval <= MaxInterval

\* PollRequest.interval: Field(ge=30, le=3600)
ValidInterval(interval) == interval >= MinInterval /\ interval <= MaxInterval

\* PollRequest.validate_symbols and validate_symbol: the symbols uppercased
ValidatedSymbols(symbols) == [i \in 1..Len(symbols) |-> Upper(symbols[i])]

\* variant: the first run scheduled one interval after the creation
JobRowNextInterval(job_id, symbols, interval, provider) ==
    [job_id |-> job_id, symbols |-> symbols, interval |-> interval,
     provider |-> provider, status |-> "active", created_at |-> now,
     updated_at |-> now, last_run |-> Never, next_run |-> now + Seconds(interval),
     error_message |-> <<>>]

\* DataAccessLayer.save_polling_job: the row of polling_job_configs
JobRow(job_id, symbols, interval, provider) ==
    [job_id |-> job_id, symbols |-> symbols, interval |-> interval,
     provider |-> provider, status |-> "active", created_at |-> now,
     updated_at |-> now, last_run |-> Never, next_run |-> now, error_message |-> <<>>]

\* job_config of start_polling_job: the entry of the registry
JobConfig(job_id, symbols, interval, provider) ==
    [job_id |-> job_id, symbols |-> symbols, interval |-> interval,
     provider |-> provider, status |-> "active", created_at |-> now,
     last_run |-> Never, next_run |-> now]

\* str(e) of the ValueError of get_latest_price: "Failed to get price for
\* {symbol}: ..."
ErrorText(call) == <<"Failed to get price for", call.symbol, call.ret.source>>

\* table with the entry of job_id set to row
WithJob(table, job_id, row) ==
    [k \in DOMAIN table \cup {job_id} |-> IF k = job_id THEN row ELSE table[k]]

\* DataAccessLayer.update_polling_job_status: the table after it
update_polling_job_status(job_id, status, error_message) ==
    IF job_id \in DOMAIN jobConfigs
    THEN [jobConfigs EXCEPT
            ![job_id].status = status,
            ![job_id].updated_at = now,
            ![job_id].error_message = IF error_message # <<>> THEN error_message ELSE @]
    ELSE jobConfigs

\* DataAccessLayer.update_polling_job_run_time: the table after it
update_polling_job_run_time(job_id, last_run, next_run) ==
    IF job_id \in DOMAIN jobConfigs
    THEN [jobConfigs EXCEPT ![job_id].last_run = last_run, ![job_id].next_run = next_run,
                            ![job_id].updated_at = now]
    ELSE jobConfigs

\* MarketDataService.get_polling_job: the row of the store when there is a
\* session and a row, else the entry of the registry, else None
get_polling_job(job_id, db) ==
    IF db /\ job_id \in DOMAIN jobConfigs THEN jobConfigs[job_id]
    ELSE IF job_id \in DOMAIN polling_jobs THEN polling_jobs[job_id]
    ELSE NoJob

\* variant: the column without its unique index
UniqueJobIdUnchecked(job_id) == TRUE

\* PollingJobConfig.job_id is unique=True: the insert of save_polling_job is
\* accepted only for an id that no row carries
UniqueJobId(job_id) == job_id \notin DOMAIN jobConfigs

\* variant: the job is put in the registry and its worker created before the
\* row is written to the store
save_polling_job_raises_registered(symbols, interval, provider, job_id) ==
    /\ UNCHANGED jobConfigs
    /\ IF UniqueJobId(job_id)
       THEN /\ polling_jobs' = WithJob(polling_jobs, job_id,
                                   JobConfig(job_id, ValidatedSymbols(symbols), interval,
                                             ResolveProvider(provider)))
            /\ workers' = [workers EXCEPT ![job_id] = [NoWorker EXCEPT !.pc = "ready"]]
       ELSE UNCHANGED <<polling_jobs, workers>>

\* dal.save_polling_job raises (lines 99-106): start_polling_job ends there,
\* before the registry is written (line 119) and the worker created (line 121)
save_polling_job_raises(symbols, interval, provider, job_id) ==
    UNCHANGED <<jobConfigs, polling_jobs, workers>>

\* POST /prices/poll: PollRequest validation, then start_polling_job, which
\* draws job_id; ok: the store accepts the new row
start_polling(symbols, interval, provider, job_id, ok) ==
    /\ LoopIdle
    /\ IF ~ValidInterval(interval)
       THEN /\ reply' = [op |-> "start", job_id |-> "", interval |-> interval,
                         ok |-> FALSE, status |-> "invalid"]
            /\ UNCHANGED <<jobConfigs, polling_jobs, workers>>
       ELSE IF ~ok \/ ~UniqueJobId(job_id)
       THEN /\ reply' = [op |-> "start", job_id |-> "", interval |-> interval,
                         ok |-> FALSE, status |-> "unavailable"]
            /\ save_polling_job_raises(symbols, interval, provider, job_id)
       ELSE /\ jobConfigs' = WithJob(jobConfigs, job_id,
                                JobRow(job_id, ValidatedSymbols(symbols), interval,
                                       ResolveProvider(provider)))
            /\ polling_jobs' = WithJob(polling_jobs, job_id,
                                JobConfig(job_id, ValidatedSymbols(symbols), interval,
                                          ResolveProvider(provider)))
            /\ workers' = [workers EXCEPT ![job_id] = [NoWorker EXCEPT !.pc = "ready"]]
            /\ reply' = [op |-> "start", job_id |-> job_id, interval |-> interval,
                         ok |-> TRUE, status |-> "accepted"]
    /\ UNCHANGED <<now, environment, quotes, store, channel, calls, consumer, maTrace>>

\* variant: the store alone is told, the registry is left alone
stop_polling_job_store_only(job_id, db) ==
    /\ LoopIdle
    /\ jobConfigs' = IF db THEN update_polling_job_status(job_id, "stopped", <<>>)
                     ELSE jobConfigs
    /\ LET success == IF job_id \in DOMAIN polling_jobs THEN TRUE ELSE db
       IN  reply' = [op |-> "stop", job_id |-> job_id, interval |-> 0, ok |-> success,
                     status |-> IF success THEN "stopped" ELSE "not_found"]
    /\ UNCHANGED <<polling_jobs, workers>>
    /\ UNCHANGED <<now, environment, quotes, store, channel, calls, consumer, maTrace>>

\* MarketDataService.stop_polling_job (lines 191-200) behind DELETE
\* /prices/poll/{job_id} (404 when it returns False)
stop_polling_job(job_id, db) ==
    /\ LoopIdle
    /\ jobConfigs' = IF db THEN update_polling_job_status(job_id, "stopped", <<>>)
                     ELSE jobConfigs
    /\ polling_jobs' = IF job_id \in DOMAIN polling_jobs
                       THEN [polling_jobs EXCEPT ![job_id].status = "stopped"]
                       ELSE polling_jobs
    /\ LET success == IF job_id \in DOMAIN polling_jobs THEN TRUE ELSE db
       IN  reply' = [op |-> "stop", job_id |-> job_id, interval |-> 0, ok |-> success,
                     status |-> IF success THEN "stopped" ELSE "not_found"]
    /\ UNCHANGED workers
    /\ UNCHANGED <<now, environment, quotes, store, channel, calls, consumer, maTrace>>

\* variant: the worker lets get_latest_price consult the cache
PollUseCacheDefault == TRUE

\* use_cache=False (line 148): the flag the worker passes to get_latest_price
PollUseCache == FALSE

\* the outer handler of the worker (lines 163-170): the registry says error,
\* the store is told (ok2: it accepts), the loop is left
WorkerAbort(j, ok2) ==
    /\ polling_jobs' = [polling_jobs EXCEPT ![j].status = "error"]
    /\ jobConfigs' = IF ok2 THEN update_polling_job_status(j, "error", <<"store">>)
                     ELSE jobConfigs
    /\ workers' = [workers EXCEPT ![j].pc = IF ok2 THEN "exited" ELSE "crashed"]

\* variant: while True
LoopConditionForever(job) == TRUE

\* while job["status"] == "active" (line 132)
LoopCondition(job) == job.status = "active"

\* the top of the loop (lines 132-149): the status looked at, the run times
\* written (ok: the store accepts), the first symbol requested
LoopTop(j, ok, ok2) ==
    LET job == polling_jobs[j]
    IN  IF ~LoopCondition(job)
        THEN /\ workers' = [workers EXCEPT ![j].pc = "exited"]
             /\ UNCHANGED <<jobConfigs, polling_jobs, calls>>
        ELSE IF ~ok
        THEN /\ WorkerAbort(j, ok2)
             /\ UNCHANGED calls
        ELSE /\ jobConfigs' = update_polling_job_run_time(j, now,
                                                         now + Seconds(job.interval))
             /\ \E call \in EnteredCalls(job.symbols[1], job.provider, PollUseCache) :
                   calls' = [calls EXCEPT ![j] = call]
             /\ workers' = [workers EXCEPT ![j].pc = "poll", ![j].index = 1,
                                           ![j].ticks = workers[j].ticks + 1]
             /\ UNCHANGED polling_jobs

\* the task created by start_polling_job runs for the first time (lines
\* 126-132): get_provider is outside of every handler
worker_run(j, ok, ok2) ==
    /\ workers[j].pc = "ready"
    /\ LoopFree(j)
    /\ IF j \notin DOMAIN polling_jobs
       THEN /\ workers' = [workers EXCEPT ![j].pc = "exited"]
            /\ UNCHANGED <<jobConfigs, polling_jobs, calls>>
       ELSE IF ~get_provider(polling_jobs[j].provider)
       THEN /\ workers' = [workers EXCEPT ![j].pc = "crashed"]
            /\ UNCHANGED <<jobConfigs, polling_jobs, calls>>
       ELSE LoopTop(j, ok, ok2)
    /\ UNCHANGED <<now, environment, quotes, store, channel, consumer, maTrace, reply>>

\* variant: no handler around the fetch of a symbol, a failure leaves the loop
HandledInLoopNever(failed, ok) == ~failed

\* the try of lines 143-156 around the fetch of a symbol: the body of the for
\* loop ends normally when the fetch returned, or when it raised and the
\* handler wrote the failure to the store (ok)
HandledInLoop(failed, ok) == ~failed \/ ok

\* variant: the requests of a pass are started without awaiting each one
ReturnedOrPending(call) == call.pc \in {"done", "failed", "fetch"}

\* await self.get_latest_price(...) in the for loop (lines 143-150): the
\* loop goes on when the call has returned or raised
Returned(call) == call.pc \in {"done", "failed"}

\* variant: the sleep counted from the next_run of the registry entry, which
\* at line 161 is still the one the pass before wrote
SleepEndByNextRun(job) == job.next_run

\* await asyncio.sleep(job["interval"]) (line 161): the time the sleep ends
SleepEnd(job) == now + Seconds(job.interval)

\* get_latest_price has returned or raised for the symbol polled (lines
\* 150-161): a failure is written to the store (ok: it accepts), then the
\* next symbol is requested or, after the last one, the worker sleeps
worker_next(j, ok, ok2) ==
    /\ workers[j].pc = "poll"
    /\ Returned(calls[j])
    /\ LoopFree(j)
    /\ LET job == polling_jobs[j]
           failed == calls[j].pc = "failed"
           table == IF failed
                    THEN update_polling_job_status(j, "error", ErrorText(calls[j]))
                    ELSE jobConfigs
       IN  IF ~HandledInLoop(failed, ok)
           THEN /\ WorkerAbort(j, ok2)
                /\ calls' = [calls EXCEPT ![j] = IdleCall]
           ELSE IF workers[j].index < Len(job.symbols)
           THEN /\ jobConfigs' = table
                /\ \E call \in EnteredCalls(job.symbols[workers[j].index + 1],
                                            job.provider, PollUseCache) :
                      calls' = [calls EXCEPT ![j] = call]
                /\ workers' = [workers EXCEPT ![j].index = workers[j].index + 1]
                /\ UNCHANGED polling_jobs
           ELSE /\ jobConfigs' = table
                /\ polling_jobs' = [polling_jobs EXCEPT
                                      ![j].last_run = now,
                                      ![j].next_run = now + Seconds(job.interval)]
                /\ workers' = [workers EXCEPT ![j].pc = "sleep",
                                              ![j].wake = SleepEnd(job)]
                /\ calls' = [calls EXCEPT ![j] = IdleCall]
    /\ UNCHANGED <<now, environment, quotes, store, channel, consumer, maTrace, reply>>

\* asyncio.sleep(job["interval"]) is over (line 161): the top of the loop
worker_wake(j, ok, ok2) ==
    /\ workers[j].pc = "sleep"
    /\ now >= workers[j].wake
    /\ LoopFree(j)
    /\ LoopTop(j, ok, ok2)
    /\ UNCHANGED <<now, environment, quotes, store, channel, consumer, maTrace, reply>>

-----------------------------------------------------------------------------
(* What earlier runs left behind.  The store and the topic are durable: a     *)
(* process starts on the rows and messages of the runs before it.  A history  *)
(* of w > 0 is what w successful forced fetches of AAPL followed by one of    *)
(* MSFT leave, through get_latest_price, the k-th fetch answered at the clock *)
(* reading k - 2 - w; the history of 0 is the empty store.                    *)

HistoryLen(w) == IF w = 0 THEN 0 ELSE w + 1

HistoryFetch(f, w, k) ==
    IF k <= w THEN [symbol |-> "AAPL", price |-> f[k]]
              ELSE [symbol |-> "MSFT", price |-> 250]

HistoryRaw(f, w, tz) ==
    [k \in 1..HistoryLen(w) |->
        [id |-> k, symbol |-> HistoryFetch(f, w, k).symbol,
         provider |-> ProviderName("alpha_vantage"),
         raw_response |-> HistoryFetch(f, w, k).price, timestamp |-> k - 1 - w]]

HistoryPoints(f, w, tz) ==
    [k \in 1..HistoryLen(w) |->
        [id |-> k, symbol |-> HistoryFetch(f, w, k).symbol,
         price |-> HistoryFetch(f, w, k).price, timestamp |-> (k - 2 - w) + tz,
         provider |-> ProviderName("alpha_vantage"), raw_response_id |-> k]]

HistoryEvents(f, w, tz) ==
    [k \in 1..HistoryLen(w) |->
        [key |-> HistoryFetch(f, w, k).symbol, symbol |-> HistoryFetch(f, w, k).symbol,
         price |-> HistoryFetch(f, w, k).price,
         timestamp |-> isoformat((k - 2 - w) + tz),
         source |-> ProviderName("alpha_vantage"), raw_response_id |-> StrId(k)]]

\* the quotes the upstream serves from the start on
Upcoming(f, w) == [k \in 1..MaxQuotes |-> f[w + k]]

-----------------------------------------------------------------------------
(* The system *)

InitWith(f, w) ==
    /\ now = 0
    /\ feed = Upcoming(f, w)
    /\ quotes = 0
    /\ rawData = HistoryRaw(f, w, tzOffset)
    /\ pricePoints = HistoryPoints(f, w, tzOffset)
    /\ movingAverages = <<>>
    /\ priceEvents = HistoryEvents(f, w, tzOffset)
    /\ averageEvents = <<>>
    /\ calls = [c \in Callers |-> IdleCall]
    /\ consumer = IdleConsumer(HistoryLen(w) + 1, HistoryLen(w) + 1, 0)
    /\ maTrace = <<>>
    /\ jobConfigs = <<>>
    /\ polling_jobs = <<>>
    /\ workers = [j \in JobIds |-> NoWorker]
    /\ reply = NoReply

\* The price service alone (the consumer is a process of its own,
\* scripts/run_kafka_consumer.py, and is not running), from an empty store.
InitService ==
    /\ tzOffset \in TzOffsets
    /\ providers = {"alpha_vantage"}
    /\ producerUp \in BOOLEAN
    /\ \E f \in Feeds : InitWith(f, 0)

NextService ==
    \/ \E symbol \in RequestSymbols, provider \in ProviderArgs, use_cache \in BOOLEAN :
          get_latest_price_begin("c1", symbol, provider, use_cache)
    \/ provider_quote("c1")
    \/ provider_failure("c1")
    \/ \E ok \in BOOLEAN : save_raw_market_data("c1", ok)
    \/ \E ok \in BOOLEAN : save_price_point("c1", ok)
    \/ publish_price_event("c1")
    \/ get_latest_price_return("c1")
    \/ Tick

SpecService == InitService /\ [][NextService]_vars

\* The pipeline: forced fetches of one symbol (as the worker of a polling job
\* makes them, one at a time) feeding the consumer, on an empty store or on
\* the history of earlier runs, which the consumer has read and committed.
\* The provider answers and the store accepts the writes of the service here
\* (their failures are in SpecService and leave nothing behind); the writes
\* and the publications of the consumer may fail, and the consumer may die.
InitPipeline ==
    /\ tzOffset = 0
    /\ providers = {"alpha_vantage"}
    /\ producerUp = TRUE
    /\ \E f \in Feeds, w \in WarmStarts : InitWith(f, w)

NextPipeline ==
    \/ \E symbol \in PolledSymbols : get_latest_price_begin("c1", symbol, "None", FALSE)
    \/ provider_quote("c1")
    \/ save_raw_market_data("c1", TRUE)
    \/ save_price_point("c1", TRUE)
    \/ publish_price_event("c1")
    \/ get_latest_price_return("c1")
    \/ consumer_poll
    \/ process_price_event
    \/ publish_moving_average
    \/ consumer_commit
    \/ consumer_restart

SpecPipeline == InitPipeline /\ [][NextPipeline]_vars

\* The steps of the consumer when the store and the broker do not fail: the
\* reads and the write of _process_price_event do not raise, the derived
\* event is delivered.
process_price_event_stored == process_price_event /\ consumer'.logged # "store"
publish_moving_average_sent == publish_moving_average /\ averageEvents' # averageEvents

ConsumerStep ==
    \/ consumer_poll
    \/ process_price_event_stored
    \/ publish_moving_average_sent
    \/ consumer_commit

\* The pipeline without failures and with a consumer that keeps running: the
\* loop of start_consuming takes its next step whenever it has one.  The
\* history holds one point less than a window, or a full window.
FairStarts == {Warm - 1, Warm}

InitFair ==
    /\ tzOffset = 0
    /\ providers = {"alpha_vantage"}
    /\ producerUp = TRUE
    /\ \E f \in Feeds, w \in FairStarts : InitWith(f, w)

NextFair ==
    \/ \E symbol \in PolledSymbols : get_latest_price_begin("c1", symbol, "None", FALSE)
    \/ provider_quote("c1")
    \/ save_raw_market_data("c1", TRUE)
    \/ save_price_point("c1", TRUE)
    \/ publish_price_event("c1")
    \/ get_latest_price_return("c1")
    \/ consumer_poll
    \/ process_price_event_stored
    \/ publish_moving_average_sent
    \/ consumer_commit

SpecFair == InitFair /\ [][NextFair]_vars /\ WF_vars(ConsumerStep)

\* The pipeline with a broker that may answer a poll of the consumer with an
\* error; one run of the consume loop, the process is not started again.
NextBroker ==
    \/ \E symbol \in PolledSymbols : get_latest_price_begin("c1", symbol, "None", FALSE)
    \/ provider_quote("c1")
    \/ save_raw_market_data("c1", TRUE)
    \/ save_price_point("c1", TRUE)
    \/ publish_price_event("c1")
    \/ get_latest_price_return("c1")
    \/ consumer_poll
    \/ process_price_event
    \/ publish_moving_average
    \/ consumer_commit
    \/ \E code \in BrokerErrors : consumer_poll_error(code)

SpecBroker == InitPipeline /\ [][NextBroker]_vars

\* A raw event as another producer may put it on the topic: message_data.get
\* reads an absent field as None, which all([...]) takes as false, like the
\* empty string and 0.  An absent field is written as the false value of its
\* kind.
WellFormedEvent == PriceEventMessage("AAPL", 100, 0, ProviderName("alpha_vantage"), 0)
MalformedEvents ==
    { [WellFormedEvent EXCEPT !.symbol = ""],
      [WellFormedEvent EXCEPT !.price = 0],
      [WellFormedEvent EXCEPT !.timestamp = <<>>] }

\* The pipeline on the history of earlier runs, with one malformed event on
\* the topic that the consumer has yet to read; the consumer runs on without
\* dying.
InitMalformed ==
    /\ tzOffset = 0
    /\ providers = {"alpha_vantage"}
    /\ producerUp = TRUE
    /\ now = 0
    /\ feed = Upcoming(TestFeed, Warm)
    /\ quotes = 0
    /\ rawData = HistoryRaw(TestFeed, Warm, 0)
    /\ pricePoints = HistoryPoints(TestFeed, Warm, 0)
    /\ movingAverages = <<>>
    /\ \E m \in MalformedEvents : priceEvents = Append(HistoryEvents(TestFeed, Warm, 0), m)
    /\ averageEvents = <<>>
    /\ calls = [c \in Callers |-> IdleCall]
    /\ consumer = IdleConsumer(HistoryLen(Warm) + 1, HistoryLen(Warm) + 1, 0)
    /\ maTrace = <<>>
    /\ jobConfigs = <<>>
    /\ polling_jobs = <<>>
    /\ workers = [j \in JobIds |-> NoWorker]
    /\ reply = NoReply

NextMalformed ==
    \/ \E symbol \in PolledSymbols : get_latest_price_begin("c1", symbol, "None", FALSE)
    \/ provider_quote("c1")
    \/ save_raw_market_data("c1", TRUE)
    \/ save_price_point("c1", TRUE)
    \/ publish_price_event("c1")
    \/ get_latest_price_return("c1")
    \/ consumer_poll
    \/ process_price_event
    \/ publish_moving_average
    \/ consumer_commit

SpecMalformed == InitMalformed /\ [][NextMalformed]_vars

\* The pipeline on the history of earlier runs, asked for symbols written in
\* small letters, with and without the cache; the consumer runs on without
\* dying.
InitSymbols ==
    /\ tzOffset = 0
    /\ providers = {"alpha_vantage"}
    /\ producerUp = TRUE
    /\ InitWith(TestFeed, Warm)

NextSymbols ==
    \/ \E symbol \in LowerSymbols, use_cache \in BOOLEAN :
          get_latest_price_begin("c1", symbol, "None", use_cache)
    \/ provider_quote("c1")
    \/ save_raw_market_data("c1", TRUE)
    \/ save_price_point("c1", TRUE)
    \/ publish_price_event("c1")
    \/ get_latest_price_return("c1")
    \/ consumer_poll
    \/ process_price_event
    \/ publish_moving_average
    \/ consumer_commit

SpecSymbols == InitSymbols /\ [][NextSymbols]_vars

\* One polling job: the start and stop requests that POST and DELETE
\* /prices/poll pass on, the worker and its fetches, and the passing of time.
\* Every start draws the same job id, so that a second start meets the unique
\* index of the table; the store accepts the writes of get_latest_price.
InitPolling ==
    /\ tzOffset = 0
    /\ providers = {"alpha_vantage"}
    /\ producerUp = TRUE
    /\ InitWith(TestFeed, 0)

NextPolling ==
    \/ \E symbols \in SymbolLists, interval \in AcceptedIntervals,
          provider \in JobProviders, job_id \in OneJobId, ok \in BOOLEAN :
          start_polling(symbols, interval, provider, job_id, ok)
    \/ \E job_id \in OneJobId : stop_polling_job(job_id, TRUE)
    \/ \E j \in JobIds, ok \in BOOLEAN, ok2 \in BOOLEAN : worker_run(j, ok, ok2)
    \/ \E j \in JobIds, ok \in BOOLEAN, ok2 \in BOOLEAN : worker_next(j, ok, ok2)
    \/ \E j \in JobIds, ok \in BOOLEAN, ok2 \in BOOLEAN : worker_wake(j, ok, ok2)
    \/ \E j \in JobIds : provider_quote(j)
    \/ \E j \in JobIds : provider_failure(j)
    \/ \E j \in JobIds : save_raw_market_data(j, TRUE)
    \/ \E j \in JobIds : save_price_point(j, TRUE)
    \/ \E j \in JobIds : publish_price_event(j)
    \/ Tick

SpecPolling == InitPolling /\ [][NextPolling]_vars

\* One polling job of two symbols at the shortest interval that may be
\* stopped, with a worker that is scheduled whenever it can run, a provider
\* that answers every request (with a quote or a failure), a store that
\* accepts every write and a clock that goes on while the model has time.
JobStep(j) ==
    \/ worker_run(j, TRUE, TRUE)
    \/ worker_next(j, TRUE, TRUE)
    \/ worker_wake(j, TRUE, TRUE)
    \/ provider_quote(j)
    \/ provider_failure(j)
    \/ save_raw_market_data(j, TRUE)
    \/ save_price_point(j, TRUE)
    \/ publish_price_event(j)

NextStop ==
    \/ \E symbols \in SymbolLists, job_id \in OneJobId :
          start_polling(symbols, MinInterval, "None", job_id, TRUE)
    \/ \E job_id \in OneJobId : stop_polling_job(job_id, TRUE)
    \/ \E j \in OneJobId : JobStep(j)
    \/ Tick

SpecStop ==
    /\ InitPolling
    /\ [][NextStop]_vars
    /\ \A j \in OneJobId : WF_vars(JobStep(j))
    /\ WF_vars(Tick)

\* Two requests of GET /prices/latest at a time, both with the cache (the
\* default of the route), on an empty store, with a provider that answers
\* and a store that accepts the writes.
CachedCallers == {"c1", "c2"}
CachedSymbols == {"AAPL", "MSFT"}

NextOverlap ==
    \/ \E c \in CachedCallers, symbol \in CachedSymbols :
          get_latest_price_begin(c, symbol, "None", TRUE)
    \/ \E c \in CachedCallers : provider_quote(c)
    \/ \E c \in CachedCallers : save_raw_market_data(c, TRUE)
    \/ \E c \in CachedCallers : save_price_point(c, TRUE)
    \/ \E c \in CachedCallers : publish_price_event(c)
    \/ \E c \in CachedCallers : get_latest_price_return(c)

SpecOverlap == InitPolling /\ [][NextOverlap]_vars

\* The requests alone: every body of POST /prices/poll, every job id of
\* DELETE /prices/poll/{job_id}, stop_polling_job with and without a store
\* session; the workers of the jobs started have not run yet.
NextRequests ==
    \/ \E symbols \in SymbolLists, interval \in Intervals, provider \in JobProviders,
          job_id \in JobIds, ok \in BOOLEAN :
          start_polling(symbols, interval, provider, job_id, ok)
    \/ \E job_id \in StopIds, db \in BOOLEAN : stop_polling_job(job_id, db)
    \/ Tick

SpecRequests == InitPolling /\ [][NextRequests]_vars

\* The first tick of one polling job of six symbols, which PollRequest
\* accepts (1 to 10), at the shortest interval and the default provider; the
\* store accepts every write.  The clock moves with the answers only, so the
\* sleep after the pass does not end.
SixSymbolLists == {<<"AAPL", "MSFT", "GOOGL", "AMZN", "TSLA", "META">>}

NextBurst ==
    \/ \E symbols \in SixSymbolLists, job_id \in OneJobId :
          start_polling(symbols, MinInterval, "None", job_id, TRUE)
    \/ \E j \in OneJobId : worker_run(j, TRUE, TRUE)
    \/ \E j \in OneJobId : worker_next(j, TRUE, TRUE)
    \/ \E j \in OneJobId : provider_quote(j)
    \/ \E j \in OneJobId : provider_failure(j)
    \/ \E j \in OneJobId : save_raw_market_data(j, TRUE)
    \/ \E j \in OneJobId : save_price_point(j, TRUE)
    \/ \E j \in OneJobId : publish_price_event(j)

SpecBurst == InitPolling /\ [][NextBurst]_vars

\* Two polling jobs of one symbol at the shortest interval and the default
\* provider.  The provider does not answer the requests of the first job, or
\* fails them, and the first job may be stopped; the requests of the second
\* job are answered with quotes.  The store accepts every write.
TroubledJob == "poll_1"
OtherJob == "poll_2"

NextJobs ==
    \/ \E symbols \in OneSymbolLists, job_id \in JobIds :
          start_polling(symbols, MinInterval, "None", job_id, TRUE)
    \/ stop_polling_job(TroubledJob, TRUE)
    \/ \E j \in JobIds : worker_run(j, TRUE, TRUE)
    \/ \E j \in JobIds : worker_next(j, TRUE, TRUE)
    \/ \E j \in JobIds : worker_wake(j, TRUE, TRUE)
    \/ provider_failure(TroubledJob)
    \/ provider_quote(OtherJob)
    \/ save_raw_market_data(OtherJob, TRUE)
    \/ save_price_point(OtherJob, TRUE)
    \/ publish_price_event(OtherJob)
    \/ Tick

SpecJobs == InitPolling /\ [][NextJobs]_vars

-----------------------------------------------------------------------------
(* Properties of the price service *)

\* the newest stored point of (symbol, provider), when it is younger than 5 minutes
IsNewest(i, symbol, provider) ==
    /\ i \in PointsOf(symbol, provider)
    /\ \A j \in PointsOf(symbol, provider) :
            pricePoints[j].timestamp <= pricePoints[i].timestamp

NewestIsFresh(symbol, provider) ==
    \E i \in Indices(pricePoints) :
        /\ IsNewest(i, symbol, provider)
        /\ now - pricePoints[i].timestamp < 5 * Minute

EventsOfRaw(rawId) ==
    {k \in Indices(priceEvents) : priceEvents[k].raw_response_id = StrId(rawId)}

PointsOfRaw(rawId) ==
    {i \in Indices(pricePoints) : pricePoints[i].raw_response_id = rawId}

\* C1: a call with use_cache=true for a configured provider, made while the
\* newest stored point of (uppercased symbol, provider) is younger than 5
\* minutes, returns that point with source "cache" in the same step, sends no
\* request to the provider, and leaves raw rows, price points and the topic
\* as they were.
C1_CacheHit ==
    [][\A c \in Callers :
        ( /\ calls[c].pc = "idle"
          /\ calls'[c].pc # "idle"
          /\ calls'[c].use_cache
          /\ get_provider(calls'[c].provider)
          /\ NewestIsFresh(calls'[c].symbol, InstanceName(calls'[c].provider)) )
        => /\ calls'[c].pc = "done"
           /\ calls'[c].ret.status = "ok"
           /\ calls'[c].ret.source = "cache"
           /\ \E i \in Indices(pricePoints) :
                /\ IsNewest(i, calls'[c].symbol, InstanceName(calls'[c].provider))
                /\ calls'[c].ret.symbol = pricePoints[i].symbol
                /\ calls'[c].ret.price = pricePoints[i].price
                /\ calls'[c].ret.timestamp = pricePoints[i].timestamp
                /\ calls'[c].ret.provider = pricePoints[i].provider
           /\ calls'[c].provCalls = 0
           /\ UNCHANGED <<quotes, rawData, pricePoints, priceEvents>>]_vars

\* a call answered from the cache while an older point of the symbol is stored too
C1_Witness ==
    \E c \in Callers :
        /\ calls[c].pc = "done"
        /\ calls[c].use_cache
        /\ calls[c].ret.source = "cache"
        /\ Cardinality(PointsOf(calls[c].symbol, InstanceName(calls[c].provider))) >= 2

\* C2: a call with use_cache=false for a configured provider has sent its
\* request to the provider, and is never answered from the cache, whatever
\* is stored.
C2_ForceFresh ==
    \A c \in Callers :
        (calls[c].pc # "idle" /\ ~calls[c].use_cache /\ get_provider(calls[c].provider))
        => /\ calls[c].provCalls = 1
           /\ calls[c].ret.source # "cache"

\* a forced call waiting for the provider while a fresh point is stored
C2_Witness ==
    \E c \in Callers :
        /\ calls[c].pc = "fetch"
        /\ ~calls[c].use_cache
        /\ NewestIsFresh(calls[c].symbol, InstanceName(calls[c].provider))

\* C3: a call whose request the provider failed (rate limit, transport error,
\* no data, error message) has failed with an error and has created no raw
\* row, no price point and no event; the step that fails it changes neither
\* the store nor the topic.
C3_ProviderFailure ==
    /\ [](\A c \in Callers :
            calls[c].answer \in ProviderFailures
            => /\ calls[c].pc = "failed"
               /\ calls[c].ret.status = "error"
               /\ calls[c].rawId = 0
               /\ calls[c].pointId = 0
               /\ calls[c].pubTries = 0)
    /\ [][\A c \in Callers :
            (calls[c].pc = "fetch" /\ calls'[c].answer \in ProviderFailures)
            => UNCHANGED <<rawData, pricePoints, movingAverages, priceEvents>>]_vars

\* a rate-limited call, failed, beside rows of an earlier fetch
C3_Witness ==
    \E c \in Callers :
        /\ calls[c].answer = "rate_limit"
        /\ calls[c].pc = "failed"
        /\ Len(pricePoints) >= 1

\* C4: a call that goes to the provider sends exactly one request; the raw
\* row is written first, then the price point that references it, then one
\* event at most, which carries the symbol, price, timestamp and raw-row
\* reference of that point; no event of a fetch exists before both rows do.
C4_FetchOrder ==
    \A c \in Callers :
        LET call == calls[c] IN
        /\ (call.pc \in {"fetch"} \cup SyncPcs \/ (call.pc = "done" /\ call.ret.source = "live"))
           => call.provCalls = 1
        /\ call.pc \in {"fetch", "save_raw"}
           => call.rawId = 0 /\ call.pointId = 0 /\ call.pubTries = 0
        /\ call.pc = "save_point"
           => /\ call.rawId \in Indices(rawData)
              /\ rawData[call.rawId].symbol = call.symbol
              /\ call.pointId = 0
              /\ PointsOfRaw(call.rawId) = {}
              /\ EventsOfRaw(call.rawId) = {}
        /\ call.pc = "publish"
           => /\ call.rawId \in Indices(rawData)
              /\ PointsOfRaw(call.rawId) = {call.pointId}
              /\ call.pubTries = 0
              /\ EventsOfRaw(call.rawId) = {}
        /\ (call.pc = "done" /\ call.ret.source = "live")
           => /\ call.rawId \in Indices(rawData)
              /\ PointsOfRaw(call.rawId) = {call.pointId}
              /\ call.pubTries = 1
              /\ Cardinality(EventsOfRaw(call.rawId)) <= 1
              /\ \A k \in EventsOfRaw(call.rawId) :
                    /\ priceEvents[k].symbol = pricePoints[call.pointId].symbol
                    /\ priceEvents[k].price = pricePoints[call.pointId].price
                    /\ priceEvents[k].timestamp = isoformat(pricePoints[call.pointId].timestamp)
                    /\ priceEvents[k].price = call.ret.price

\* a live call that has returned with its event on the topic
C4_Witness ==
    \E c \in Callers :
        /\ calls[c].pc = "done"
        /\ calls[c].ret.source = "live"
        /\ EventsOfRaw(calls[c].rawId) # {}

\* C5: when the publication adds nothing to the topic (no producer, or produce
\* raises), the call still returns the live price in that step, after one
\* attempt, and the raw row and the price point it wrote stay in the store.
C5_PublishFailure ==
    [][\A c \in Callers :
        (calls[c].pc = "publish" /\ calls'[c].pc # "publish" /\ priceEvents' = priceEvents)
        => /\ calls'[c].pc = "done"
           /\ calls'[c].ret.status = "ok"
           /\ calls'[c].ret.source = "live"
           /\ calls'[c].ret.price = calls[c].price
           /\ calls'[c].pubTries = 1
           /\ UNCHANGED <<rawData, pricePoints>>
           /\ calls[c].rawId \in Indices(rawData)
           /\ calls[c].pointId \in Indices(pricePoints)]_vars

\* a live call that has returned, its point stored and no event of it on the topic
C5_Witness ==
    \E c \in Callers :
        /\ calls[c].pc = "done"
        /\ calls[c].ret.source = "live"
        /\ calls[c].pointId \in Indices(pricePoints)
        /\ EventsOfRaw(calls[c].rawId) = {}

\* C6: every event on the topic has a stored price point with its raw-row
\* reference, symbol, price and timestamp; a fetch whose price point could
\* not be written has no event.
C6_EventHasPoint ==
    /\ \A k \in Indices(priceEvents) :
          \E i \in Indices(pricePoints) :
              /\ StrId(pricePoints[i].raw_response_id) = priceEvents[k].raw_response_id
              /\ pricePoints[i].symbol = priceEvents[k].symbol
              /\ pricePoints[i].price = priceEvents[k].price
              /\ isoformat(pricePoints[i].timestamp) = priceEvents[k].timestamp
    /\ \A c \in Callers :
          (calls[c].rawId # 0 /\ PointsOfRaw(calls[c].rawId) = {})
          => EventsOfRaw(calls[c].rawId) = {}

\* a fetch failed at the write of its price point, beside an event of an earlier fetch
C6_Witness ==
    \E c \in Callers :
        /\ calls[c].pc = "failed"
        /\ calls[c].rawId # 0
        /\ Len(priceEvents) >= 1

-----------------------------------------------------------------------------
(* Properties of the statistic consumer *)

\* the event the consumer holds
Polled == priceEvents[consumer.offset]

\* the price points of a symbol, whatever the provider
SymbolPoints(symbol) == {i \in Indices(pricePoints) : pricePoints[i].symbol = symbol}

\* the price point an event was published for
EventPoint(m) ==
    CHOOSE i \in Indices(pricePoints) :
        StrId(pricePoints[i].raw_response_id) = m.raw_response_id

\* among rows (points of one symbol), the 5 persisted last at or before row id
WindowEndingAt(rows, id) ==
    {i \in rows : i <= id /\ Cardinality({j \in rows : i < j /\ j <= id}) < 5}

\* among rows, the 5 with the greatest timestamps
FiveNewest(rows) ==
    {i \in rows :
        Cardinality({j \in rows : pricePoints[j].timestamp > pricePoints[i].timestamp}) < 5}

\* the prices of rows, from the oldest timestamp to the newest
RankIn(rows, i) ==
    Cardinality({j \in rows : pricePoints[j].timestamp < pricePoints[i].timestamp}) + 1
PricesInOrder(rows) ==
    [r \in 1..Cardinality(rows) |->
        pricePoints[CHOOSE i \in rows : RankIn(rows, i) = r].price]

RECURSIVE TotalUpTo(_, _)
TotalUpTo(k, rows) ==
    IF k = 0 THEN 0
    ELSE (IF k \in rows THEN pricePoints[k].price ELSE 0) + TotalUpTo(k - 1, rows)

\* C7: a step in which the consumer processes an event of a symbol that has
\* fewer than 5 stored price points adds no moving-average row, publishes no
\* derived event and leads to no publication.
C7_FewerThanFive ==
    [][( /\ consumer.pc = "process"
         /\ consumer'.pc # "process"
         /\ Cardinality(SymbolPoints(Polled.symbol)) < 5 )
       => /\ UNCHANGED <<movingAverages, averageEvents>>
          /\ consumer'.pc # "publish"]_vars

\* an event processed, and left at that, while its symbol has 1 to 4 points
C7_Witness ==
    /\ consumer.pc = "commit"
    /\ consumer.logged = "not_enough"
    /\ Cardinality(SymbolPoints(Polled.symbol)) \in 1..4

\* C8 as stated: the row made when the event of Pk is processed is computed
\* over Pk-4..Pk, whatever was persisted in the meantime.
C8_WindowOfEvent ==
    \A n \in Indices(maTrace) :
        LET m == priceEvents[maTrace[n].offset]
        IN  maTrace[n].window = WindowEndingAt(SymbolPoints(m.symbol), EventPoint(m))

\* C8 as amended: the row made when the event of Pk is processed is computed
\* over exactly the 5 points of the symbol persisted last at the moment of
\* processing, Pk being among the stored ones: these are Pk-4..Pk when no
\* later point of the symbol is stored yet, and Pj-4..Pj when the service has
\* already persisted points up to Pj, j > k.  Rows are only ever added.
C8_WindowAtProcessing ==
    [][ /\ Len(maTrace') >= Len(maTrace)
        /\ SubSeq(maTrace', 1, Len(maTrace)) = maTrace
        /\ Len(maTrace') = Len(movingAverages')
        /\ Len(maTrace') > Len(maTrace) =>
              LET made == maTrace'[Len(maTrace')]
                  stored == SymbolPoints(Polled.symbol)
                  k == EventPoint(Polled)
                  j == CHOOSE i \in stored : \A h \in stored : h <= i
              IN  /\ consumer.pc = "process"
                  /\ made.offset = consumer.offset
                  /\ made.stored = stored
                  /\ k \in stored
                  /\ Cardinality(made.window) = 5
                  /\ made.window = WindowEndingAt(stored, j)
                  /\ (j = k => made.window = WindowEndingAt(stored, k)) ]_vars

\* a row computed for the event of P5 when P6 was already persisted
C8_Witness ==
    \E n \in Indices(maTrace) :
        LET m == priceEvents[maTrace[n].offset]
        IN  /\ Cardinality(maTrace[n].stored) = 6
            /\ \E i \in maTrace[n].stored : i > EventPoint(m)

\* C9: every moving-average row, when it is written, holds the sum of the
\* prices of the 5 points of its symbol with the greatest timestamps at that
\* moment, divided by 5; over the prices 100, 101, 99, 102, 98 it holds 100.
\* A row once written keeps its value.
C9_MeanOfFive ==
    [][ /\ Len(movingAverages') >= Len(movingAverages)
        /\ SubSeq(movingAverages', 1, Len(movingAverages)) = movingAverages
        /\ Len(movingAverages') > Len(movingAverages) =>
              \A row \in {movingAverages'[Len(movingAverages')]} :
              \A top \in {FiveNewest(SymbolPoints(row.symbol))} :
                  /\ Cardinality(top) = 5
                  /\ row.moving_average * 5 = Scale * TotalUpTo(Len(pricePoints), top)
                  /\ (PricesInOrder(top) = <<100, 101, 99, 102, 98>>
                          => row.moving_average = 100 * Scale) ]_vars

\* a row computed over 100, 101, 99, 102, 98
C9_Witness ==
    \E n \in Indices(movingAverages) :
        /\ PricesInOrder(FiveNewest(maTrace[n].stored)) = <<100, 101, 99, 102, 98>>
        /\ movingAverages[n].moving_average = 100 * Scale

\* C10 as stated: each delivery of an event whose symbol has at least 5 stored
\* points, the store accepting the write, appends one moving-average row of
\* that symbol with period 5 and changes no other row; two rows made for the
\* same event over the same stored points have equal symbol, period and value.
C10_Redelivery ==
    /\ [][( /\ consumer.pc = "process"
            /\ consumer'.pc \in {"commit", "publish"}
            /\ consumer'.logged # "store"
            /\ Cardinality(SymbolPoints(Polled.symbol)) >= 5 )
          => /\ Len(movingAverages') = Len(movingAverages) + 1
             /\ SubSeq(movingAverages', 1, Len(movingAverages)) = movingAverages
             /\ movingAverages'[Len(movingAverages')].symbol = Polled.symbol
             /\ movingAverages'[Len(movingAverages')].period = 5
             /\ UNCHANGED <<rawData, pricePoints>>]_vars
    /\ [](\A a, b \in Indices(maTrace) :
            (maTrace[a].offset = maTrace[b].offset /\ maTrace[a].stored = maTrace[b].stored)
            => /\ movingAverages[a].symbol = movingAverages[b].symbol
               /\ movingAverages[a].period = movingAverages[b].period
               /\ movingAverages[a].moving_average = movingAverages[b].moving_average)

\* the same, for the events that carry a price other than 0 (holds)
C10_PricedRedelivery ==
    /\ [][( /\ consumer.pc = "process"
            /\ consumer'.pc \in {"commit", "publish"}
            /\ consumer'.logged # "store"
            /\ Polled.price # 0
            /\ Cardinality(SymbolPoints(Polled.symbol)) >= 5 )
          => /\ Len(movingAverages') = Len(movingAverages) + 1
             /\ SubSeq(movingAverages', 1, Len(movingAverages)) = movingAverages
             /\ movingAverages'[Len(movingAverages')].symbol = Polled.symbol
             /\ movingAverages'[Len(movingAverages')].period = 5
             /\ UNCHANGED <<rawData, pricePoints>>]_vars
    /\ [](\A a, b \in Indices(maTrace) :
            (maTrace[a].offset = maTrace[b].offset /\ maTrace[a].stored = maTrace[b].stored)
            => /\ movingAverages[a].symbol = movingAverages[b].symbol
               /\ movingAverages[a].period = movingAverages[b].period
               /\ movingAverages[a].moving_average = movingAverages[b].moving_average)

\* two rows made for one event, delivered twice, over the same stored points
C10_TwoRows ==
    \E a, b \in Indices(maTrace) :
        /\ a < b
        /\ maTrace[a].offset = maTrace[b].offset
        /\ maTrace[a].stored = maTrace[b].stored

\* C11 as stated: the committed offset moves only by the commit that follows
\* the processing of the polled event, to just past that event, and never
\* for an event whose computation or moving-average write failed.
C11_AckOnlySuccess ==
    [][consumer'.committed > consumer.committed
          => /\ consumer.pc = "commit"
             /\ consumer'.committed = consumer.offset + 1
             /\ consumer.logged # "store"]_vars

\* what holds of the commit: it follows the processing of the polled event,
\* whatever the outcome of the processing
C11_AckAfterProcessing ==
    [][consumer'.committed > consumer.committed
          => /\ consumer.pc = "commit"
             /\ consumer'.committed = consumer.offset + 1]_vars

\* C12: processing an event that lacks a symbol, a price or a timestamp adds
\* no moving-average row and no derived event and goes on to the commit; a
\* running consumer never polls an offset again; and a consumer that is idle
\* before an unread event can poll it, one that has processed can commit.
C12_MalformedSkipped ==
    /\ [][( /\ consumer.pc = "process"
            /\ consumer'.pc # "process"
            /\ Polled \in MalformedEvents )
          => /\ UNCHANGED <<movingAverages, averageEvents, maTrace>>
             /\ consumer'.pc = "commit"
             /\ consumer'.logged = "invalid"]_vars
    /\ [][consumer'.position >= consumer.position]_vars
    /\ [](consumer.pc = "idle" /\ consumer.position <= Len(priceEvents)
             => ENABLED consumer_poll)
    /\ [](consumer.pc = "commit" => ENABLED consumer_commit)

\* the event after a malformed one, polled by the consumer that skipped it,
\* has its moving-average row
C12_Witness ==
    \E o \in Indices(priceEvents) :
        /\ priceEvents[o] \in MalformedEvents
        /\ consumer.committed > o
        /\ consumer.restarts = 0
        /\ \E n \in Indices(maTrace) : maTrace[n].offset > o

\* a step of stop_polling_job for job_id: the reply is the one of a stop and
\* neither the clock, nor a call, nor a worker moves
StopStep(job_id) ==
    /\ reply'.op = "stop"
    /\ reply'.job_id = job_id
    /\ UNCHANGED <<now, calls, workers>>

\* a job that was never created: no row in the store, no entry in the registry
NeverCreated(job_id) == job_id \notin DOMAIN jobConfigs /\ job_id \notin DOMAIN polling_jobs

\* C13 as stated: stopping a job that was never created is answered false
\* (not found), with a store session or without one, and changes no job.
C13_UnknownStopRefused ==
    [][\A job_id \in StopIds :
          StopStep(job_id) /\ NeverCreated(job_id)
          => /\ reply'.ok = FALSE
             /\ reply'.status = "not_found"
             /\ UNCHANGED <<jobConfigs, polling_jobs, workers>>]_vars

\* what holds of it: no job is changed, whatever the answer
C13_UnknownStopChangesNothing ==
    [][\A job_id \in StopIds :
          StopStep(job_id) /\ NeverCreated(job_id)
          => UNCHANGED <<jobConfigs, polling_jobs, workers>>]_vars

\* a stop of a job that was never created, answered as a success
C13_UnknownStopSucceeds ==
    /\ reply.op = "stop"
    /\ reply.ok
    /\ NeverCreated(reply.job_id)

\* the registry says that the job is stopped
Stopped(j) == j \in DOMAIN polling_jobs /\ polling_jobs[j].status = "stopped"

\* C14: a stop of a job that the registry holds as active leaves it stopped
\* in the store and in the registry and touches neither the worker nor its
\* fetch; while the registry says stopped no tick begins and the job is not
\* active again; the tick in flight goes on: its fetch can be answered, and
\* after a fetch that returned the next symbol is requested or, after the
\* last one, the worker sleeps; the worker that runs next at the top of its
\* loop ends.
C14_StopEndsTicks ==
    /\ [][\A j \in JobIds :
            ( /\ StopStep(j)
              /\ j \in DOMAIN polling_jobs
              /\ polling_jobs[j].status = "active" )
            => /\ polling_jobs'[j].status = "stopped"
               /\ jobConfigs'[j].status = "stopped"
               /\ reply'.ok
               /\ UNCHANGED <<calls, workers>>]_vars
    /\ [][\A j \in JobIds :
            Stopped(j)
            => /\ workers'[j].ticks = workers[j].ticks
               /\ polling_jobs'[j].status # "active"
               /\ jobConfigs'[j].status # "active"
               /\ (workers[j].pc \in {"ready", "sleep"} /\ workers'[j] # workers[j]
                     => workers'[j].pc \in {"exited", "crashed"} /\ UNCHANGED calls)
               /\ ( /\ workers[j].pc = "poll"
                    /\ calls[j].pc = "done"
                    /\ workers'[j] # workers[j] )
                  => IF workers[j].index < Len(polling_jobs[j].symbols)
                     THEN /\ workers'[j].pc = "poll"
                          /\ workers'[j].index = workers[j].index + 1
                          /\ calls'[j].pc = "fetch"
                          /\ calls'[j].symbol =
                                polling_jobs[j].symbols[workers[j].index + 1]
                     ELSE workers'[j].pc = "sleep"]_vars
    /\ [](\A j \in JobIds :
            Stopped(j) /\ workers[j].pc = "poll"
            => /\ calls[j].pc = "fetch"
                  => ENABLED (provider_quote(j) \/ provider_failure(j))
               /\ calls[j].pc = "done" => ENABLED worker_next(j, TRUE, TRUE))

\* a job stopped during the fetch of its first symbol: the second symbol was
\* fetched and stored after the stop, and the worker has left its loop
\* after that one tick
C14_Witness ==
    \E j \in DOMAIN jobConfigs :
        /\ Stopped(j)
        /\ jobConfigs[j].status = "stopped"
        /\ workers[j].pc = "exited"
        /\ workers[j].ticks = 1
        /\ \E i \in Indices(pricePoints) :
              /\ pricePoints[i].symbol = jobConfigs[j].symbols[2]
              /\ pricePoints[i].timestamp > jobConfigs[j].updated_at

\* C15 as stated: once the stored status of a job is stopped or error it
\* never changes again.
C15_TerminalAbsorbing ==
    [][\A j \in DOMAIN jobConfigs :
          jobConfigs[j].status \in {"stopped", "error"}
          => jobConfigs'[j].status = jobConfigs[j].status]_vars

\* what holds of it: a stored status that has left active is never active
\* again
C15_NeverActiveAgain ==
    [][\A j \in DOMAIN jobConfigs :
          jobConfigs[j].status \in {"stopped", "error"}
          => jobConfigs'[j].status \in {"stopped", "error"}]_vars

\* a stored status stopped that turns to error: the fetch in flight at the
\* stop has failed
C15_StoppedToError ==
    [][\A j \in DOMAIN jobConfigs :
          jobConfigs[j].status = "stopped" => jobConfigs'[j].status # "error"]_vars

\* a stored status error that turns to stopped: a stop after a failed fetch
C15_ErrorToStopped ==
    [][\A j \in DOMAIN jobConfigs :
          jobConfigs[j].status = "error" => jobConfigs'[j].status # "stopped"]_vars

\* the worker of j has the failure of the fetch of a symbol before it
FetchFailed(j) == workers[j].pc = "poll" /\ calls[j].pc = "failed"

\* C16: a failing answer of the provider adds no row and no event; the worker
\* that meets the failure of a symbol, the store taking the note of it, goes
\* on in the same step to the request for the next symbol of the pass or,
\* after the last one, to its sleep of one interval, and can always do so;
\* and the worker of a job that the registry holds as active, waking up with
\* the store taking its run times, begins the next tick with the request for
\* the first symbol, whatever failed before.
C16_FailureIsolated ==
    /\ [][\A j \in JobIds :
            calls[j].pc = "fetch" /\ calls'[j].pc = "failed"
            => UNCHANGED <<store, channel, workers, polling_jobs>>]_vars
    /\ [][\A j \in JobIds :
            ( /\ FetchFailed(j)
              /\ workers'[j] # workers[j]
              /\ polling_jobs'[j].status = polling_jobs[j].status )
            => /\ UNCHANGED <<store, channel>>
               /\ IF workers[j].index < Len(polling_jobs[j].symbols)
                  THEN /\ workers'[j].pc = "poll"
                       /\ workers'[j].index = workers[j].index + 1
                       /\ workers'[j].ticks = workers[j].ticks
                       /\ calls'[j].pc = "fetch"
                       /\ calls'[j].symbol = polling_jobs[j].symbols[workers[j].index + 1]
                  ELSE /\ workers'[j].pc = "sleep"
                       /\ workers'[j].wake = now + Seconds(polling_jobs[j].interval)]_vars
    /\ [][\A j \in JobIds :
            ( /\ workers[j].pc = "sleep"
              /\ workers'[j] # workers[j]
              /\ polling_jobs[j].status = "active"
              /\ polling_jobs'[j].status = "active" )
            => /\ workers'[j].pc = "poll"
               /\ workers'[j].ticks = workers[j].ticks + 1
               /\ workers'[j].index = 1
               /\ calls'[j].pc = "fetch"
               /\ calls'[j].symbol = polling_jobs[j].symbols[1]]_vars
    /\ [](\A j \in JobIds :
            /\ FetchFailed(j)
               => ENABLED (worker_next(j, TRUE, TRUE) /\ workers'[j].pc \in {"poll", "sleep"})
            /\ ( /\ workers[j].pc = "sleep"
                 /\ now >= workers[j].wake
                 /\ polling_jobs[j].status = "active" )
               => ENABLED (worker_wake(j, TRUE, TRUE) /\ workers'[j].pc = "poll"))

\* the first symbol of a job has failed and has no point, the second symbol
\* has its point and its event, and the worker is in its second tick,
\* waiting for the provider
C16_Witness ==
    \E j \in DOMAIN jobConfigs :
        /\ Len(jobConfigs[j].error_message) = 3
        /\ jobConfigs[j].error_message[2] = jobConfigs[j].symbols[1]
        /\ \A i \in Indices(pricePoints) : pricePoints[i].symbol # jobConfigs[j].symbols[1]
        /\ \E i \in Indices(pricePoints) : pricePoints[i].symbol = jobConfigs[j].symbols[2]
        /\ \E o \in Indices(priceEvents) : priceEvents[o].symbol = jobConfigs[j].symbols[2]
        /\ workers[j].ticks = 2
        /\ workers[j].pc = "poll"
        /\ calls[j].pc = "fetch"

\* C17 as stated: the worker that meets the failure of the fetch of a symbol
\* and goes on with its loop has recorded the message of the failure, and the
\* status of the job is active as before, in the store as get_polling_job
\* reports it and in the registry.
C17_FailureKeepsActive ==
    [][\A j \in JobIds :
          ( /\ FetchFailed(j)
            /\ workers'[j] # workers[j]
            /\ workers'[j].pc \in {"poll", "sleep"}
            /\ polling_jobs[j].status = "active"
            /\ get_polling_job(j, TRUE).status = "active" )
          => /\ jobConfigs'[j].error_message = ErrorText(calls[j])
             /\ jobConfigs'[j].status = "active"
             /\ polling_jobs'[j].status = "active"]_vars

\* what holds of it: the message is recorded and the registry keeps active
C17_FailureRecorded ==
    [][\A j \in JobIds :
          ( /\ FetchFailed(j)
            /\ workers'[j] # workers[j]
            /\ workers'[j].pc \in {"poll", "sleep"}
            /\ polling_jobs[j].status = "active" )
          => /\ jobConfigs'[j].error_message = ErrorText(calls[j])
             /\ jobConfigs'[j].status = "error"
             /\ polling_jobs'[j].status = "active"]_vars

\* get_polling_job reports error for a job whose worker goes on polling and
\* whose registry entry says active
C17_ErrorWhilePolling ==
    \E j \in DOMAIN polling_jobs :
        /\ get_polling_job(j, TRUE).status = "error"
        /\ get_polling_job(j, FALSE).status = "active"
        /\ workers[j].pc = "poll"
        /\ calls[j].pc = "fetch"

\* the job of j names a provider that has no instance in self.providers
Unconfigured(j) == j \in DOMAIN polling_jobs /\ ~get_provider(polling_jobs[j].provider)

\* C18 as stated: once the worker of a job whose provider is not configured
\* has run, the loop is over and the job is no longer active, neither in the
\* store nor in the registry; without having been stopped it is in error.
C18_UnconfiguredProviderEnds ==
    \A j \in JobIds :
        Unconfigured(j) /\ workers[j].pc # "ready"
        => /\ workers[j].pc = "exited"
           /\ polling_jobs[j].status \in {"error", "stopped"}
           /\ jobConfigs[j].status \in {"error", "stopped"}

\* what holds of it: such a worker makes no request and writes nothing, and
\* no tick of the job ever begins
C18_UnconfiguredNeverPolls ==
    \A j \in JobIds :
        Unconfigured(j)
        => /\ workers[j].pc \in {"ready", "crashed"}
           /\ workers[j].ticks = 0
           /\ calls[j] = IdleCall
           /\ jobConfigs[j].last_run = Never

\* a job active in the store and in the registry whose worker has ended on
\* the exception of get_provider
C18_ActiveWithoutWorker ==
    \E j \in DOMAIN polling_jobs :
        /\ Unconfigured(j)
        /\ workers[j].pc = "crashed"
        /\ get_polling_job(j, TRUE).status = "active"
        /\ get_polling_job(j, FALSE).status = "active"

\* a step of POST /prices/poll: the reply is the one of a start, neither the
\* clock nor a call moves, and a worker changes only by being created
StartStep ==
    /\ reply'.op = "start"
    /\ UNCHANGED <<now, calls>>
    /\ \A j \in JobIds : workers'[j] # workers[j] => workers[j].pc = "none"

C19_WitnessBelow ==
    /\ reply.op = "start"
    /\ reply.status = "invalid"
    /\ reply.interval = 29
    /\ jobConfigs = <<>>
    /\ polling_jobs = <<>>

\* C20: an accepted start answers with the id of a job that did not exist
\* before; the step leaves the job in the store and in the registry with
\* status active, created at the present time, never run, its next run at
\* the present time; it creates the worker of that job and no other, leaves
\* the other jobs alone, and makes no request to the provider and no write of
\* a price: the worker created has made no request before it first runs.
C20_StartRegisters ==
    /\ [][\A j \in JobIds :
            StartStep /\ reply'.status = "accepted" /\ reply'.job_id = j
            => /\ j \notin DOMAIN jobConfigs
               /\ j \notin DOMAIN polling_jobs
               /\ jobConfigs'[j].status = "active"
               /\ jobConfigs'[j].created_at = now
               /\ jobConfigs'[j].next_run = now
               /\ jobConfigs'[j].last_run = Never
               /\ polling_jobs'[j].status = "active"
               /\ polling_jobs'[j].created_at = now
               /\ polling_jobs'[j].next_run = now
               /\ polling_jobs'[j].last_run = Never
               /\ workers[j].pc = "none"
               /\ workers'[j] = [NoWorker EXCEPT !.pc = "ready"]
               /\ \A k \in JobIds \ {j} : workers'[k] = workers[k]
               /\ \A k \in DOMAIN jobConfigs : jobConfigs'[k] = jobConfigs[k]
               /\ \A k \in DOMAIN polling_jobs : polling_jobs'[k] = polling_jobs[k]
               /\ calls'[j] = IdleCall
               /\ UNCHANGED <<quotes, store, channel>>]_vars
    /\ [](\A j \in JobIds :
            workers[j].pc = "ready" => workers[j].ticks = 0 /\ calls[j] = IdleCall)

\* a job started after some time has passed, its worker created and not yet
\* run, its next run at the time of its creation
C20_Witness ==
    \E j \in DOMAIN jobConfigs :
        /\ reply.status = "accepted"
        /\ reply.job_id = j
        /\ workers[j].pc = "ready"
        /\ jobConfigs[j].created_at > 0
        /\ jobConfigs[j].next_run = jobConfigs[j].created_at
        /\ polling_jobs[j].next_run = jobConfigs[j].created_at
        /\ quotes = 0

\* C21: an accepted start answers with a job id that no row of the store and
\* no entry of the registry carried, and leaves every row and every entry
\* that existed as it was; in every state a row and a registry entry carry
\* the job id they are filed under, every job of the registry has its row,
\* and a worker exists exactly for the jobs of the registry.
C21_FreshJobId ==
    /\ [][StartStep /\ reply'.status = "accepted"
          => /\ reply'.job_id \notin DOMAIN jobConfigs
             /\ reply'.job_id \notin DOMAIN polling_jobs
             /\ workers[reply'.job_id].pc = "none"
             /\ DOMAIN jobConfigs' = DOMAIN jobConfigs \cup {reply'.job_id}
             /\ DOMAIN polling_jobs' = DOMAIN polling_jobs \cup {reply'.job_id}
             /\ \A k \in DOMAIN jobConfigs : jobConfigs'[k] = jobConfigs[k]
             /\ \A k \in DOMAIN polling_jobs : polling_jobs'[k] = polling_jobs[k]
             /\ \A k \in JobIds \ {reply'.job_id} : workers'[k] = workers[k]]_vars
    /\ [][reply'.op = "start" /\ UNCHANGED now
          => /\ \A k \in DOMAIN jobConfigs : jobConfigs'[k] = jobConfigs[k]
             /\ \A k \in DOMAIN polling_jobs : polling_jobs'[k] = polling_jobs[k]]_vars
    /\ [](/\ DOMAIN polling_jobs \subseteq DOMAIN jobConfigs
          /\ \A j \in DOMAIN jobConfigs : jobConfigs[j].job_id = j
          /\ \A j \in DOMAIN polling_jobs : polling_jobs[j].job_id = j
          /\ \A j \in JobIds : workers[j].pc # "none" <=> j \in DOMAIN polling_jobs)

\* two jobs exist, each with its worker, the second created later than the
\* first and with another interval; a further start has been refused
C21_Witness ==
    \E j, k \in DOMAIN polling_jobs :
        /\ j # k
        /\ workers[j].pc = "ready"
        /\ workers[k].pc = "ready"
        /\ jobConfigs[j].created_at < jobConfigs[k].created_at
        /\ jobConfigs[j].interval # jobConfigs[k].interval
        /\ reply.op = "start"
        /\ reply.status = "unavailable"

\* C22: while the worker of a job is in a pass, its call of get_latest_price
\* is for the symbol of the list at the worker's index, with use_cache false,
\* has gone to the provider once and is never answered from the cache; the
\* index moves only by one within a pass, or to the first symbol when a tick
\* begins; a request is sent only with such a move; and the pass ends in the
\* sleep only after the last symbol of the list.
C22_EachSymbolOnce ==
    /\ [](\A j \in JobIds :
            workers[j].pc = "poll"
            => /\ workers[j].index \in 1..Len(polling_jobs[j].symbols)
               /\ calls[j].pc # "idle"
               /\ calls[j].symbol = polling_jobs[j].symbols[workers[j].index]
               /\ calls[j].use_cache = FALSE
               /\ calls[j].provCalls = 1
               /\ calls[j].ret.source # "cache")
    /\ [][\A j \in JobIds :
            /\ workers'[j].index # workers[j].index
               => \/ /\ workers[j].pc = "poll"
                     /\ workers'[j].pc = "poll"
                     /\ workers'[j].index = workers[j].index + 1
                     /\ workers'[j].ticks = workers[j].ticks
                  \/ /\ workers[j].pc \in {"ready", "sleep"}
                     /\ workers'[j].pc = "poll"
                     /\ workers'[j].index = 1
                     /\ workers'[j].ticks = workers[j].ticks + 1
            /\ calls'[j].pc = "fetch" /\ calls'[j] # calls[j]
               => workers'[j].index # workers[j].index
            /\ workers[j].pc = "poll" /\ workers'[j].pc = "sleep"
               => workers[j].index = Len(polling_jobs[j].symbols)]_vars

\* the second tick of a job: the first symbol is requested from the provider
\* again although its point of the first tick is within the freshness window
C22_Witness ==
    \E j \in DOMAIN polling_jobs :
        /\ workers[j].pc = "poll"
        /\ workers[j].ticks = 2
        /\ workers[j].index = 1
        /\ calls[j].pc = "fetch"
        /\ \E i \in Indices(pricePoints) :
              /\ pricePoints[i].symbol = calls[j].symbol
              /\ pricePoints[i].provider = InstanceName(calls[j].provider)
              /\ IsFresh(pricePoints[i].timestamp)

\* a symbol without a small letter
IsUppercase(symbol) == symbol \notin LowerSymbols

\* C23: the symbol of every row of raw_market_data, processed_price_points
\* and moving_averages and of every raw price event has no small letter; and
\* a symbol written in small letters and the same symbol written in capitals
\* get the same rows from get_price_history and get_moving_average and the
\* same outcome from the entry of get_latest_price, with or without cache.
C23_UppercaseSymbols ==
    /\ \A i \in Indices(rawData) : IsUppercase(rawData[i].symbol)
    /\ \A i \in Indices(pricePoints) : IsUppercase(pricePoints[i].symbol)
    /\ \A i \in Indices(movingAverages) : IsUppercase(movingAverages[i].symbol)
    /\ \A o \in Indices(priceEvents) : IsUppercase(priceEvents[o].symbol)
    /\ \A pair \in {<<"aapl", "AAPL">>, <<"msft", "MSFT">>} :
          /\ \A hours \in {1, 24} :
                get_price_history(pair[1], hours) = get_price_history(pair[2], hours)
          /\ get_moving_average(pair[1], Period) = get_moving_average(pair[2], Period)
          /\ \A use_cache \in BOOLEAN :
                EnteredCalls(pair[1], "None", use_cache)
                   = EnteredCalls(pair[2], "None", use_cache)

\* the service was asked for small-letter symbols only: it has stored points
\* and published events beyond the history, the consumer has stored a moving
\* average, and the request for "aapl" would be answered from the cache with
\* a point of AAPL
C23_Witness ==
    /\ Len(pricePoints) > HistoryLen(Warm)
    /\ Len(priceEvents) > HistoryLen(Warm)
    /\ Len(movingAverages) > 0
    /\ get_moving_average("aapl", Period) # {}
    /\ get_price_history("msft", 1) # {}
    /\ \E call \in EnteredCalls("aapl", "None", TRUE) :
          call.pc = "done" /\ call.ret.symbol = "AAPL"

\* C24: the step that puts a derived event on symbol_averages appends that
\* one event and writes no row; the event has period 5 and the timestamp of
\* the raw event being processed, and its symbol and value are those of a
\* moving-average row that was stored for that raw event before the step.
C24_DerivedEvent ==
    [][Len(averageEvents') > Len(averageEvents)
          => \A e \in {averageEvents'[Len(averageEvents')]} :
                /\ averageEvents' = Append(averageEvents, e)
                /\ UNCHANGED store
                /\ e.period = 5
                /\ e.timestamp = priceEvents[consumer.offset].timestamp
                /\ \E n \in Indices(movingAverages) :
                      /\ maTrace[n].offset = consumer.offset
                      /\ movingAverages[n].symbol = e.symbol
                      /\ movingAverages[n].moving_average = e.moving_average
                      /\ movingAverages[n].period = e.period]_vars

\* a derived event for AAPL is on the topic, computed later than the
\* timestamp it carries, after its row
C24_Witness ==
    \E a \in Indices(averageEvents) :
        /\ averageEvents[a].symbol = "AAPL"
        /\ averageEvents[a].timestamp # averageEvents[a].calculated_at
        /\ \E n \in Indices(movingAverages) :
              movingAverages[n].moving_average = averageEvents[a].moving_average

\* the rows that the fetches of the polling jobs wrote: every row of the two
\* tables when the store was empty at the start
RowProviders ==
    {rawData[i].provider : i \in Indices(rawData)}
       \cup {pricePoints[i].provider : i \in Indices(pricePoints)}

\* C27: the provider of every row of raw_market_data and of
\* processed_price_points written by a fetch of a polling job is the provider
\* of a row of polling_job_configs, the key "alpha_vantage" under which the
\* instance is registered and requested.  (The name of the instance by itself
\* is ProviderName(DEFAULT_PROVIDER), which is not DEFAULT_PROVIDER.)
C27_ProviderNameIsKey ==
    \A name \in RowProviders :
       \E j \in DOMAIN jobConfigs : jobConfigs[j].provider = name

\* what holds in place of C27: every row carries the name of the instance
\* that the key of a job resolves to
C27_InstanceNameInRows ==
    \A name \in RowProviders :
       \E j \in DOMAIN jobConfigs : InstanceName(jobConfigs[j].provider) = name

\* a fetch of a job of provider "alpha_vantage" has written a raw response
\* and a price point under the name "alphavantage"
C27_NameDiffers ==
    \E j \in DOMAIN jobConfigs, i \in Indices(pricePoints), r \in Indices(rawData) :
        /\ jobConfigs[j].provider = "alpha_vantage"
        /\ pricePoints[i].provider = "alphavantage"
        /\ rawData[r].provider = "alphavantage"
        /\ pricePoints[i].raw_response_id = rawData[r].id

\* worker j begins a tick: the top of the loop passed, the first symbol
\* requested
TickBegins(j) == workers'[j].ticks = workers[j].ticks + 1

\* C28: for every job that is in the registry and in the store the two
\* statuses are equal, and a worker begins a tick only while the stored
\* status of its job is active.
C28_RegistryEqualsStore ==
    /\ [](\A j \in DOMAIN polling_jobs \cap DOMAIN jobConfigs :
            polling_jobs[j].status = jobConfigs[j].status)
    /\ [][\A j \in JobIds : TickBegins(j) => jobConfigs[j].status = "active"]_vars

\* what holds in place of C28: a worker begins a tick only while the status
\* of the registry is active, and a status "stopped" is in both or in neither
C28_RegistryGovernsTicks ==
    /\ [][\A j \in JobIds : TickBegins(j) => polling_jobs[j].status = "active"]_vars
    /\ [](\A j \in DOMAIN polling_jobs \cap DOMAIN jobConfigs :
            polling_jobs[j].status = "stopped"
               => jobConfigs[j].status \in {"stopped", "error"})

\* the store says error and the registry says active, and the worker awaits
\* the first answer of a tick that began after the store was told
C28_Diverged ==
    \E j \in DOMAIN polling_jobs \cap DOMAIN jobConfigs :
        /\ jobConfigs[j].status = "error"
        /\ polling_jobs[j].status = "active"
        /\ workers[j].pc = "poll"
        /\ workers[j].ticks >= 2
        /\ workers[j].index = 1
        /\ calls[j].pc = "fetch"

\* the registry says error and the store says active: the outer handler of
\* the worker could not tell the store
C28_DivergedOnAbort ==
    \E j \in DOMAIN polling_jobs \cap DOMAIN jobConfigs :
        /\ polling_jobs[j].status = "error"
        /\ jobConfigs[j].status = "active"
        /\ workers[j].pc = "crashed"

\* the request of job j is with the provider or in the writes after the answer
InFlight(j) == calls[j].pc \in {"fetch"} \cup SyncPcs

\* a step of the worker of j enters get_latest_price for a symbol
RequestStarts(j) ==
    /\ workers'[j].pc = "poll"
    /\ \/ workers'[j].index # workers[j].index
       \/ workers'[j].ticks # workers[j].ticks

\* C29: a job has one request at a time.  The request for a symbol starts
\* only when no request of the job is in flight: within a pass after the
\* request for the symbol before it has returned or failed, and at the
\* beginning of a tick when the worker is new or its sleep is over, the pass
\* before having ended.  While the worker sleeps or has ended no request of
\* the job is in flight.
C29_OneCallInFlight ==
    /\ [][\A j \in JobIds :
            /\ RequestStarts(j) => ~InFlight(j)
            /\ (RequestStarts(j) /\ ~TickBegins(j))
                  => /\ workers[j].pc = "poll"
                     /\ calls[j].pc \in {"done", "failed"}
                     /\ calls[j].symbol = polling_jobs[j].symbols[workers[j].index]
                     /\ workers'[j].index = workers[j].index + 1
            /\ TickBegins(j)
                  => /\ workers[j].pc \in {"ready", "sleep"}
                     /\ workers[j].pc = "sleep" => now >= workers[j].wake
                     /\ calls[j].pc = "idle"
            /\ (InFlight(j) /\ calls'[j] # calls[j])
                  => /\ workers'[j] = workers[j]
                     /\ calls'[j].symbol = calls[j].symbol]_vars
    /\ [](\A j \in JobIds : InFlight(j) => workers[j].pc = "poll")

\* the second tick of a job awaits the answer for its second symbol: the
\* first symbol was answered, the first pass and the sleep are over
C29_Witness ==
    \E j \in DOMAIN polling_jobs :
        /\ workers[j].ticks = 2
        /\ workers[j].index = 2
        /\ calls[j].pc = "fetch"
        /\ calls[j].symbol = polling_jobs[j].symbols[2]

\* the response has something in its "Global Quote"
HasQuote(r) == r.quote \in {"no_price", "price"}

\* the responses the claim names: the limit note alone, and a transport that
\* raised
RateLimited(r) == r.transport = "ok" /\ ~r.error_message /\ r.note
TransportFailed(r) == r.transport # "ok"

FailureKinds == {"error_message", "rate_limit", "no_data", "transport"}

\* C26: the fetch of the provider returns a price only for a response that
\* arrived and has a quote; a response with an error message, with the limit
\* note, without or with an empty quote, or a transport that raised, gives a
\* failure without a price; the failure of a limit note and the failure of a
\* transport differ in kind and in message.  In the service a request that
\* leaves the provider goes on to the writes with the price of a quote, or
\* has failed with the kind of the failure and writes nothing.
C26_ProviderOutcomes ==
    /\ \A r \in Responses, p \in {0, 100} :
          \A out \in {provider_get_latest_price(r, p)} :
             /\ "price" \in DOMAIN out
                   => /\ r.transport = "ok" /\ HasQuote(r)
                      /\ out.kind = "quote"
                      /\ out.price = IF r.quote = "price" THEN p ELSE 0
             /\ (TransportFailed(r) \/ r.error_message \/ r.note \/ ~HasQuote(r))
                   => /\ out.kind \in FailureKinds
                      /\ "price" \notin DOMAIN out
             /\ RateLimited(r) => out.kind = "rate_limit"
             /\ TransportFailed(r) => out.kind = "transport"
    /\ \A r1 \in Responses, r2 \in Responses :
          (RateLimited(r1) /\ TransportFailed(r2))
             => /\ provider_get_latest_price(r1, 100).kind
                      # provider_get_latest_price(r2, 100).kind
                /\ provider_get_latest_price(r1, 100).message
                      # provider_get_latest_price(r2, 100).message
    /\ [](\A c \in Callers :
            calls[c].answer \in FailureKinds
               => /\ calls[c].pc = "failed"
                  /\ calls[c].ret.status = "error"
                  /\ calls[c].ret.source = calls[c].answer)
    /\ [][\A c \in Callers :
            (calls[c].pc = "fetch" /\ calls'[c].pc # "fetch")
               => \/ /\ calls'[c].pc = "save_raw"
                     /\ calls'[c].answer = "quote"
                     /\ calls'[c].price = feed[quotes + 1]
                  \/ /\ calls'[c].pc = "failed"
                     /\ calls'[c].answer \in FailureKinds
                     /\ calls'[c].price = calls[c].price
                     /\ UNCHANGED <<store, channel>>]_vars

\* a job has had a request answered with a quote and stored, one failed by
\* the limit note and written to its row, and one failed by the transport
C26_Witness ==
    \E j \in DOMAIN jobConfigs :
        /\ Len(pricePoints) > 0
        /\ jobConfigs[j].error_message = <<"Failed to get price for", "AAPL", "rate_limit">>
        /\ calls[j].pc = "failed"
        /\ calls[j].answer = "transport"
        /\ calls[j].symbol = "MSFT"

\* the requests that the worker of j has made to the provider since its
\* tick in progress began, when that was less than 60 seconds ago
CallsInLastMinute(j) ==
    IF /\ j \in DOMAIN jobConfigs
       /\ workers[j].pc = "poll"
       /\ now - jobConfigs[j].last_run < Seconds(60)
    THEN workers[j].index
    ELSE 0

\* C25: the workers of all jobs together make at most get_rate_limit()
\* requests to the provider in every window of 60 seconds; here the window
\* that ends now, of which the requests of the ticks in progress are a part.
C25_RateLimitRespected ==
    CallsInLastMinute("poll_1") + CallsInLastMinute("poll_2") <= get_rate_limit

\* what holds in place of C25: the requests of one tick are as many as the
\* job has symbols, at most 10, and a tick of a job begins no sooner than
\* one interval after the tick before it began
C25_BoundedBySymbols ==
    /\ [](\A j \in DOMAIN polling_jobs :
            /\ Len(polling_jobs[j].symbols) \in 1..10
            /\ workers[j].index <= Len(polling_jobs[j].symbols))
    /\ [][\A j \in JobIds :
            (TickBegins(j) /\ workers[j].pc = "sleep")
               => now >= jobConfigs[j].last_run + Seconds(polling_jobs[j].interval)]_vars

\* the sixth request of a tick is with the provider within the minute in
\* which the tick began, the five before it answered or failed
C25_SixInOneMinute ==
    \E j \in DOMAIN jobConfigs :
        /\ workers[j].pc = "poll"
        /\ workers[j].index = 6
        /\ calls[j].pc = "fetch"
        /\ now - jobConfigs[j].last_run < Seconds(60)
        /\ Len(pricePoints) > 0

\* what belongs to job k: its row, its registry entry, its worker, its request
JobState(k) ==
    <<IF k \in DOMAIN jobConfigs THEN <<jobConfigs[k]>> ELSE <<>>,
      IF k \in DOMAIN polling_jobs THEN <<polling_jobs[k]>> ELSE <<>>,
      workers[k], calls[k]>>

\* the request of j is with the provider and not answered
Hung(j) == j \in DOMAIN polling_jobs /\ calls[j].pc = "fetch"

\* job j hangs, has a failed fetch, is stopped, or its worker has ended
Troubled(j) ==
    \/ Hung(j)
    \/ FetchFailed(j)
    \/ Stopped(j)
    \/ workers[j].pc \in {"exited", "crashed"}

\* C30: no step changes what belongs to two jobs, so a failure, an abort or a
\* stop of one job leaves the status, last_run and next_run of every other
\* job as they were; and while a job hangs in a request, has failed, is
\* stopped or has ended, every other worker can take its next step: begin its
\* first tick, go on to the next symbol or to the sleep when its request has
\* returned, and begin the next tick when its sleep is over.
C30_JobsIndependent ==
    /\ [][\A j \in JobIds, k \in JobIds :
            (j # k /\ JobState(j)' # JobState(j)) => JobState(k)' = JobState(k)]_vars
    /\ [](\A j \in JobIds, k \in JobIds :
            (j # k /\ Troubled(j) /\ k \in DOMAIN polling_jobs
                   /\ calls[j].pc \notin SyncPcs)
               => /\ workers[k].pc = "ready" => ENABLED worker_run(k, TRUE, TRUE)
                  /\ (workers[k].pc = "poll" /\ calls[k].pc \in {"done", "failed"})
                        => ENABLED worker_next(k, TRUE, TRUE)
                  /\ (workers[k].pc = "sleep" /\ now >= workers[k].wake)
                        => ENABLED (worker_wake(k, TRUE, TRUE)
                                      /\ (polling_jobs[k].status = "active"
                                             => TickBegins(k))))

\* the first request of one job is still with the provider while the other
\* job, started no later, is in its third tick with its status active and
\* its run times written
C30_Witness ==
    \E j \in DOMAIN polling_jobs, k \in DOMAIN polling_jobs :
        /\ j # k
        /\ workers[j].ticks = 1
        /\ Hung(j)
        /\ workers[k].ticks = 3
        /\ workers[k].pc = "poll"
        /\ polling_jobs[k].status = "active"
        /\ polling_jobs[k].last_run # Never
        /\ jobConfigs[k].status = "active"

\* one job is stopped after a failed fetch while the other job goes on
\* polling in a later tick
C30_WitnessStopped ==
    \E j \in DOMAIN polling_jobs, k \in DOMAIN polling_jobs :
        /\ j # k
        /\ Stopped(j)
        /\ jobConfigs[j].error_message # <<>>
        /\ workers[j].pc = "exited"
        /\ workers[k].ticks >= 2
        /\ workers[k].pc = "poll"
        /\ polling_jobs[k].status = "active"

\* the rows of raw_market_data that no row of processed_price_points refers to
Orphans ==
    {r \in Indices(rawData) :
        \A i \in Indices(pricePoints) : pricePoints[i].raw_response_id # rawData[r].id}

\* the raw rows whose fetch is between its two writes
PendingRaw == {calls[c].rawId : c \in {d \in Callers : calls[d].pc = "save_point"}}

\* C31: every row of processed_price_points refers to one row of
\* raw_market_data, which exists and has the same symbol and provider, and no
\* two points refer to the same raw row.  A raw row is without a point only
\* between the two writes of its fetch or after the write of the point of
\* its fetch failed: at the start every raw row has its point, and a raw row
\* comes to be without a point and without a pending write only by the step
\* in which save_price_point raises for it.
C31_PointHasRaw ==
    /\ Orphans = {}
    /\ [](\A i \in Indices(pricePoints) :
            /\ Cardinality({r \in Indices(rawData) :
                              rawData[r].id = pricePoints[i].raw_response_id}) = 1
            /\ \A r \in Indices(rawData) :
                  rawData[r].id = pricePoints[i].raw_response_id
                     => /\ rawData[r].symbol = pricePoints[i].symbol
                        /\ rawData[r].provider = pricePoints[i].provider
            /\ \A k \in Indices(pricePoints) :
                  pricePoints[k].raw_response_id = pricePoints[i].raw_response_id
                     => k = i)
    /\ [][\A r \in (Orphans \ PendingRaw)' :
            r \notin Orphans \ PendingRaw
               => \E c \in Callers :
                     /\ calls[c].pc = "save_point"
                     /\ calls[c].rawId = r
                     /\ calls'[c].pc = "failed"
                     /\ calls'[c].ret = ErrorRet("store")
                     /\ UNCHANGED pricePoints]_vars

\* one fetch has left its raw row and its point, a later fetch its raw row
\* alone, and no fetch is between its writes
C31_Witness ==
    /\ Orphans # {}
    /\ PendingRaw = {}
    /\ Len(pricePoints) > 0
    /\ \E r \in Orphans : \E i \in Indices(pricePoints) :
          pricePoints[i].raw_response_id < rawData[r].id

\* C32: every row of processed_price_points has a price greater than 0,
\* whatever response the provider client took as a success.
C32_PositivePrice ==
    \A i \in Indices(pricePoints) : pricePoints[i].price > 0

\* what holds in place of C32: the price of a point is the price the provider
\* client returned for the response, which is that of the "05. price" field
\* or 0 when the quote has no such field
C32_PriceAsReturned ==
    /\ \A r \in QuoteResponses, p \in {0, 100} :
          provider_get_latest_price(r, p).price = IF r.quote = "price" THEN p ELSE 0
    /\ [][\A c \in Callers :
            Len(pricePoints') > Len(pricePoints) /\ calls[c].pc = "save_point"
               => pricePoints'[Len(pricePoints')].price = calls[c].price]_vars

\* a point of price 0 is stored and its event is on the topic
C32_ZeroPriceStored ==
    \E i \in Indices(pricePoints), o \in Indices(priceEvents) :
        /\ pricePoints[i].price = 0
        /\ priceEvents[o].price = 0
        /\ priceEvents[o].raw_response_id = StrId(pricePoints[i].raw_response_id)

\* the raw event at offset o is on the topic and the consumer has not yet
\* processed it, and its symbol has at least 5 stored points
Averageable(o) ==
    /\ o \in Indices(priceEvents)
    /\ o >= consumer.position \/ (o = consumer.offset /\ consumer.pc = "process")
    /\ Cardinality(PointsOf(priceEvents[o].symbol, "None")) >= MinPoints

\* a row of moving_averages was stored for the raw event at offset o
Averaged(o) == \E n \in Indices(maTrace) : maTrace[n].offset = o

EventOffsets == 1..(HistoryLen(Warm) + MaxQuotes)

\* C33: with a consumer that keeps running and no failure of the store or
\* the broker, every raw event that is published for a symbol of at least 5
\* stored points is eventually followed by a row of moving_averages computed
\* for it, and get_moving_average then has a row to return.
C33_EventuallyAveraged ==
    \A o \in EventOffsets :
       Averageable(o)
          ~> (Averaged(o) /\ get_moving_average(priceEvents[o].symbol, Period) # {})

\* what holds in place of C33: the same for every raw event whose price is not 0
C33_PricedEventuallyAveraged ==
    \A o \in EventOffsets :
       (Averageable(o) /\ priceEvents[o].price # 0)
          ~> (Averaged(o) /\ get_moving_average(priceEvents[o].symbol, Period) # {})

\* the event of a point of price 0 was read and committed without a row,
\* its symbol having 5 points
C33_ZeroEventSkipped ==
    \E o \in Indices(priceEvents) :
        /\ priceEvents[o].price = 0
        /\ Cardinality(PointsOf(priceEvents[o].symbol, "None")) >= MinPoints
        /\ consumer.committed > o
        /\ ~Averaged(o)

\* the worker of j has ended
Ended(j) == workers[j].pc \in {"exited", "crashed"}

\* the worker of j sleeps and the clock of the model has no step left that
\* would end the sleep
SleepOutlastsClock(j) ==
    /\ workers[j].pc = "sleep"
    /\ now < workers[j].wake
    /\ ~ENABLED Tick

\* C34: a worker whose job is stopped ends, when the request in flight is
\* answered and the sleep ends (in the model: unless the sleep outlasts the
\* clock).  It ends at the top of the loop, which it leaves without a
\* request or a write when it finds the job stopped, and only there: a
\* worker in a pass leaves the loop by no step but the abort after a failed
\* write, and while its job is stopped in the middle of a pass it goes on to
\* the next symbol.
C34_StoppedWorkerEnds ==
    /\ \A j \in OneJobId :
          (Stopped(j) /\ ~Ended(j)) ~> (Ended(j) \/ SleepOutlastsClock(j))
    /\ [][\A j \in JobIds :
            (Stopped(j) /\ workers[j].pc \in {"ready", "sleep"}
                        /\ workers'[j] # workers[j])
               => /\ workers'[j].pc = "exited"
                  /\ UNCHANGED <<calls, jobConfigs, polling_jobs>>]_vars
    /\ [][\A j \in JobIds :
            (workers[j].pc = "poll" /\ workers'[j].pc # "poll")
               => \/ /\ workers'[j].pc = "sleep"
                     /\ workers[j].index = Len(polling_jobs[j].symbols)
                  \/ /\ Ended(j)'
                     /\ polling_jobs'[j].status = "error"]_vars
    /\ [](\A j \in JobIds :
            (Stopped(j) /\ workers[j].pc = "poll" /\ calls[j].pc \in {"done", "failed"}
                        /\ workers[j].index < Len(polling_jobs[j].symbols))
               => ENABLED (worker_next(j, TRUE, TRUE)
                             /\ workers'[j].index = workers[j].index + 1
                             /\ calls'[j].pc = "fetch"))

\* a job stopped while its first request was in flight: the request was
\* answered, the second symbol requested and answered, the sleep ended and
\* the worker ended at the top of the loop, the job stopped in the store
C34_Witness ==
    \E j \in DOMAIN polling_jobs :
        /\ Stopped(j)
        /\ workers[j].pc = "exited"
        /\ workers[j].ticks = 1
        /\ workers[j].index = 2
        /\ Len(pricePoints) = 2
        /\ polling_jobs[j].last_run > jobConfigs[j].updated_at

\* the calls with use_cache=true that are awaiting the provider for a symbol
\* and a provider
Awaiting(symbol, name) ==
    {c \in Callers : /\ calls[c].pc = "fetch"
                      /\ calls[c].use_cache
                      /\ calls[c].symbol = symbol
                      /\ InstanceName(calls[c].provider) = name}

\* C35: calls with use_cache=true for one symbol and provider make at most
\* one request to the provider per window of 5 minutes: no two of them await
\* the provider at a time, and no two points of the symbol and provider
\* that such calls stored are less than 5 minutes apart.
C35_OneFetchPerWindow ==
    /\ \A symbol \in CachedSymbols :
          Cardinality(Awaiting(symbol, InstanceName("None"))) <= 1
    /\ \A i \in Indices(pricePoints), k \in Indices(pricePoints) :
          (i # k /\ pricePoints[i].symbol = pricePoints[k].symbol
                 /\ pricePoints[i].provider = pricePoints[k].provider
                 /\ pricePoints[i].timestamp <= pricePoints[k].timestamp)
             => pricePoints[k].timestamp - pricePoints[i].timestamp
                   >= CacheMinutes * Minute

\* what holds in place of C35: a call with use_cache=true goes to the
\* provider only when no point of its symbol and provider younger than 5
\* minutes is stored at the moment it is made
C35_FetchOnlyOnMiss ==
    [][\A c \in Callers :
          (calls[c].pc = "idle" /\ calls'[c].pc = "fetch" /\ calls'[c].use_cache)
             => \A i \in PointsOf(calls'[c].symbol, InstanceName(calls'[c].provider)) :
                   ~IsFresh(pricePoints[i].timestamp)]_vars

\* two calls with the cache for AAPL overlapped: the second was made while
\* the first awaited the provider, and both stored a point within one minute
C35_TwoFetchesStored ==
    \E i \in Indices(pricePoints), k \in Indices(pricePoints) :
        /\ i < k
        /\ pricePoints[i].symbol = "AAPL"
        /\ pricePoints[k].symbol = "AAPL"
        /\ pricePoints[k].timestamp - pricePoints[i].timestamp < Minute

\* the UTC time at which the fetch of point i was stored: the timestamp of
\* its raw row, which the database sets with utcnow
FetchedAt(i) == rawData[pricePoints[i].raw_response_id].timestamp

\* call c is answered from the cache in this step, with point i
ServedFromCache(c, i) ==
    /\ calls[c].pc = "idle"
    /\ calls'[c].pc = "done"
    /\ calls'[c].ret.source = "cache"
    /\ i \in PointsOf(calls'[c].symbol, InstanceName(calls'[c].provider))
    /\ calls'[c].ret.timestamp = pricePoints[i].timestamp
    /\ calls'[c].ret.price = pricePoints[i].price

\* C36: a call is answered from the cache only with a point that was fetched
\* at most 5 minutes before, whatever the offset of the host from UTC.
C36_CacheWithinWindow ==
    [][\A c \in Callers, i \in Indices(pricePoints) :
          ServedFromCache(c, i) => now - FetchedAt(i) <= CacheMinutes * Minute]_vars

\* what holds in place of C36: the point served is one whose stamp, taken by
\* the provider client on the local clock of the host, is less than 5 minutes
\* behind the UTC clock; on a host at UTC that is a fetch less than 5 minutes
\* before
C36_FreshByStamp ==
    [][\A c \in Callers, i \in Indices(pricePoints) :
          ServedFromCache(c, i)
             => /\ pricePoints[i].timestamp > now - CacheMinutes * Minute
                /\ tzOffset = 0 => now - FetchedAt(i) <= CacheMinutes * Minute]_vars

\* on a host ahead of UTC a call was answered from the cache with a point
\* fetched more than 5 minutes before
C36_StaleServed ==
    \E c \in Callers, i \in Indices(pricePoints) :
        /\ tzOffset > 0
        /\ calls[c].pc = "done"
        /\ calls[c].ret.source = "cache"
        /\ calls[c].ret.timestamp = pricePoints[i].timestamp
        /\ now - FetchedAt(i) > CacheMinutes * Minute

\* on a host behind UTC a call with the cache went to the provider although
\* a point of its symbol fetched less than a minute before is stored
C36_FreshRefetched ==
    \E c \in Callers, i \in Indices(pricePoints) :
        /\ tzOffset < 0
        /\ calls[c].pc = "fetch"
        /\ calls[c].use_cache
        /\ i \in PointsOf(calls[c].symbol, InstanceName(calls[c].provider))
        /\ now - FetchedAt(i) < Minute

\* the raw event m is the one published for a stored price point: it carries
\* the symbol, the price and the timestamp of that point
PublishedForPoint(m) ==
    \E i \in Indices(pricePoints) :
        /\ m.raw_response_id = StrId(pricePoints[i].raw_response_id)
        /\ m.symbol = pricePoints[i].symbol
        /\ m.price = pricePoints[i].price
        /\ m.timestamp = isoformat(pricePoints[i].timestamp)

\* C37 as stated: an event published for a price point, whatever the price of
\* the point, is never set aside as invalid, and with at least 5 stored points
\* of its symbol and the store accepting the write its processing appends a
\* moving-average row.
C37_CarriedIsWellFormed ==
    [][( /\ consumer.pc = "process"
         /\ consumer'.pc \in {"commit", "publish"}
         /\ PublishedForPoint(Polled) )
       => /\ consumer'.logged # "invalid"
          /\ ( /\ consumer'.logged # "store"
               /\ Cardinality(PointsOf(Polled.symbol, "None")) >= MinPoints )
             => /\ consumer'.pc = "publish"
                /\ Len(movingAverages') = Len(movingAverages) + 1]_vars

\* what holds: the same for the events whose price is not 0, and an event
\* published for a point of price 0 is always set aside as invalid, without a
\* row
C37_NonZeroIsWellFormed ==
    [][( /\ consumer.pc = "process"
         /\ consumer'.pc \in {"commit", "publish"}
         /\ PublishedForPoint(Polled) )
       => IF Polled.price # 0
          THEN /\ consumer'.logged # "invalid"
               /\ ( /\ consumer'.logged # "store"
                    /\ Cardinality(PointsOf(Polled.symbol, "None")) >= MinPoints )
                  => /\ consumer'.pc = "publish"
                     /\ Len(movingAverages') = Len(movingAverages) + 1
          ELSE /\ consumer'.pc = "commit"
               /\ consumer'.logged = "invalid"
               /\ UNCHANGED movingAverages]_vars

\* the consumer has set aside as invalid an event published for a point of
\* price 0 whose symbol has at least 5 stored points
C37_ZeroEventInvalid ==
    /\ consumer.pc = "commit"
    /\ consumer.logged = "invalid"
    /\ PublishedForPoint(Polled)
    /\ Polled.price = 0
    /\ Cardinality(PointsOf(Polled.symbol, "None")) >= MinPoints

\* C38: a start that fails at the write of the job row changes neither the
\* store, nor the registry, nor a worker, nor a call, and makes no request to
\* the provider; in every state a job of the registry, a worker and a call of
\* a worker belong to a job whose row is in the store, and the call is for a
\* symbol of that row.
C38_FailedStartNoTrace ==
    /\ [][StartStep /\ reply'.status = "unavailable"
          => UNCHANGED <<jobConfigs, polling_jobs, workers, calls, quotes, store,
                         channel>>]_vars
    /\ [](\A j \in JobIds :
            ( \/ j \in DOMAIN polling_jobs
              \/ workers[j].pc # "none"
              \/ calls[j].pc # "idle" )
            => /\ j \in DOMAIN jobConfigs
               /\ calls[j].pc # "idle"
                  => \E k \in Indices(jobConfigs[j].symbols) :
                        Normalize(jobConfigs[j].symbols[k]) = calls[j].symbol)

\* the first start of the service has failed at the write of the row: no job
\* is in the store or in the registry, no worker exists and no call was made
C38_Witness ==
    /\ reply.op = "start"
    /\ reply.status = "unavailable"
    /\ ValidInterval(reply.interval)
    /\ DOMAIN jobConfigs = {}
    /\ DOMAIN polling_jobs = {}
    /\ \A j \in JobIds : workers[j] = NoWorker /\ calls[j] = IdleCall
    /\ quotes = 0

\* C39: the step that begins a tick of job j writes to the row of j the
\* present time as last_run and last_run plus the interval of the job as
\* next_run; a tick that follows another begins no sooner than the next_run
\* that the row held, which is one interval after the tick before began; and
\* a worker sleeps at least until the next_run of its row.
C39_NextRunKept ==
    /\ [][\A j \in DOMAIN jobConfigs :
            TickBegins(j)
            => /\ polling_jobs[j].status = "active"
               /\ jobConfigs'[j].last_run = now
               /\ jobConfigs'[j].next_run
                     = jobConfigs'[j].last_run + Seconds(polling_jobs[j].interval)
               /\ jobConfigs[j].last_run # Never
                  => /\ now >= jobConfigs[j].next_run
                     /\ jobConfigs'[j].last_run - jobConfigs[j].last_run
                           >= Seconds(jobConfigs[j].interval)]_vars
    /\ [](\A j \in DOMAIN jobConfigs :
            workers[j].pc = "sleep" => workers[j].wake >= jobConfigs[j].next_run)

\* a job has begun its second tick, one interval or more after the first
C39_Witness ==
    \E j \in DOMAIN jobConfigs :
        /\ workers[j].ticks = 2
        /\ workers[j].pc = "poll"
        /\ jobConfigs[j].last_run >= Seconds(jobConfigs[j].interval)
        /\ jobConfigs[j].next_run = jobConfigs[j].last_run + Seconds(jobConfigs[j].interval)
        /\ Seconds(jobConfigs[j].interval) > 0

\* the consume loop has been left
LoopLeft == consumer.pc = "stopped"

\* C40: the consume loop is left only from a poll and with the code of a
\* broker error other than the end of a partition in the log; the step that
\* leaves it clears the running flag, closes the consumer, flushes the
\* producer and changes neither an offset nor a row nor a topic; after it
\* the consumer takes no step: no event is polled, processed or committed
\* and no row or derived event is added; a poll that meets the end of a
\* partition leaves the consumer where it was, and while the loop runs an
\* unread event can be polled.
C40_BrokerErrorStops ==
    /\ [][~LoopLeft /\ LoopLeft'
          => /\ consumer.pc = "idle"
             /\ consumer'.logged \in BrokerErrors \ {"_PARTITION_EOF"}
             /\ ~consumer'.running
             /\ consumer'.closed
             /\ consumer'.flushed
             /\ consumer'.position = consumer.position
             /\ consumer'.committed = consumer.committed
             /\ UNCHANGED <<movingAverages, averageEvents, priceEvents>>]_vars
    /\ [][LoopLeft => /\ consumer' = consumer
                      /\ UNCHANGED <<movingAverages, averageEvents>>]_vars
    /\ [](~LoopLeft => consumer.running /\ ~consumer.closed /\ ~consumer.flushed)
    /\ [](consumer.pc = "idle"
            => /\ ENABLED consumer_poll_error("_PARTITION_EOF")
               /\ ~ENABLED (consumer_poll_error("_PARTITION_EOF") /\ consumer' # consumer)
               /\ consumer.position <= Len(priceEvents) => ENABLED consumer_poll)

\* the loop has been left on a transport error after a moving average was
\* computed, with an event on the topic that was never polled
C40_Witness ==
    /\ LoopLeft
    /\ consumer.logged = "_TRANSPORT"
    /\ consumer.closed
    /\ consumer.flushed
    /\ Len(movingAverages) > 0
    /\ consumer.position <= Len(priceEvents)
    /\ consumer.committed = consumer.position

====
